---- MODULE Spec2Model ----
(***************************************************************************)
(* Model of the CTAS+SWAP tokenization pipeline of                         *)
(* skyflow_snowflake/snowflake_ops/notebooks.py: the stored procedure      *)
(* handler ctas_swap_tokenize_handler, the vault it calls, the tables it   *)
(* reads and writes, an external writer of the source table, and the       *)
(* caller StoredProcedureManager.execute_tokenization_procedure.           *)
(***************************************************************************)
EXTENDS Integers, Sequences, FiniteSets, TLC

\* ---------------------------------------------------------------- bounds
MaxRows == 2        \* rows of the source table at the start of a run
MaxId == 2          \* customer_id values 1..MaxId
MaxBatch == 2       \* configured batch sizes 1..MaxBatch
MaxWrites == 1      \* external writes to the source table during a run
MaxRuns == 2        \* calls of the procedure, the re-runs after an abort included
MaxValues == 3      \* rows of the source table of a run that is called again
MaxRetries == 4     \* values 0..MaxRetries of execute_with_retry's max_retries
MaxDelay == 2       \* values 1..MaxDelay of execute_with_retry's delay
MaxAgainRows == 1   \* rows of Source Table when the procedure is called twice
MaxFragments == 3   \* pieces between the semicolons of a SQL file

\* ---------------------------------------------------------------- values
NULL == "NULL"      \* SQL NULL / Python None
BLANK == " "        \* a string that TRIM() turns into ''
EMPTY == ""         \* the empty string (falsy in Python)
ABSENT == "ABSENT"  \* a key that a response record does not hold
NONE == "NONE"      \* a string variable not yet bound
Unbound == 0 - 1    \* a number variable not yet bound

\* A table name: no table under it, or a table and its rows.
NoTable == [exists |-> FALSE, rows |-> <<>>]

Table(rows) == [exists |-> TRUE, rows |-> rows]

\* The sensitive columns. The handler lists six; the per-column code is the
\* same for each, and two are carried here: one that is not part of the
\* snapshot's ordering key (first_name) and one that is (email).
pii_columns == <<"first_name", "email">>

NumCols == Len(pii_columns)

PiiSet == {pii_columns[i] : i \in 1..NumCols}

Tokens == {"t1", "t2"}

\* Rows of the source table: the identifier, the sensitive columns, and
\* total_purchases standing for the non-sensitive columns.
RowSet ==
    [customer_id : 1..MaxId,
     pii : {f \in [PiiSet -> {NULL, BLANK, "a", "b"}] :
               /\ f["first_name"] \in {NULL, "a"}
               /\ f["email"] \in {NULL, BLANK, "b"}},
     total_purchases : {0}]

RECURSIVE SeqsUpTo(_, _)
SeqsUpTo(S, n) ==
    IF n = 0 THEN {<<>>}
    ELSE LET shorter == SeqsUpTo(S, n - 1)
         IN  shorter \cup {Append(s, x) : s \in {t \in shorter : Len(t) = n - 1}, x \in S}

\* ------------------------------------------------------------ SQL helpers
\* ORDER BY ... ASC puts NULL last and compares strings bytewise.
StrRank(v) ==
    CASE v = BLANK -> 0
      [] v = "a" -> 1
      [] v = "b" -> 2
      [] v = "t1" -> 3
      [] v = "t2" -> 4
      [] OTHER -> 5

\* ORDER BY customer_id, email, total_purchases, created_at
KeyLeq(r1, r2) ==
    \/ r1.customer_id < r2.customer_id
    \/ /\ r1.customer_id = r2.customer_id
       /\ \/ StrRank(r1.pii["email"]) < StrRank(r2.pii["email"])
          \/ /\ StrRank(r1.pii["email"]) = StrRank(r2.pii["email"])
             /\ r1.total_purchases <= r2.total_purchases

\* The filter with its conditions joined by AND.
HasPiiEveryColumn(r) == \A c \in PiiSet : r.pii[c] # NULL

\* WHERE first_name IS NOT NULL OR ... OR date_of_birth IS NOT NULL
HasPii(r) == \E c \in PiiSet : r.pii[c] # NULL

\* WHERE col IS NOT NULL AND TRIM(col) != ''
Tokenizable(v) == v # NULL /\ v # BLANK /\ v # EMPTY

FilterIdx(src) == {i \in 1..Len(src) : HasPii(src[i])}

\* The results CREATE TABLE ... AS SELECT ROW_NUMBER() OVER (ORDER BY key)
\* can produce: one per order of the filtered rows that respects the key
\* (rows with equal keys are numbered in any order).
Snapshots(src) ==
    LET idx == FilterIdx(src)
        k == Cardinality(idx)
        orders == {p \in [1..k -> idx] :
                     /\ \A i, j \in 1..k : i # j => p[i] # p[j]
                     /\ \A i \in 1..k : \A j \in 1..k :
                           i < j => KeyLeq(src[p[i]], src[p[j]])}
    IN  {[i \in 1..k |-> [rn |-> i, row |-> src[p[i]]]] : p \in orders}

\* ------------------------------------------------------------------ vault
\* One record of a vault response: the value found under each of the four
\* places the handler looks at, or ABSENT.
Rec(tk, fl, tp, br) == [tokens |-> tk, fields |-> fl, token |-> tp, bare |-> br]

RecordSet ==
    {Rec("t1", ABSENT, ABSENT, ABSENT),
     Rec(ABSENT, "t2", ABSENT, ABSENT), Rec(ABSENT, ABSENT, "t1", ABSENT),
     Rec(ABSENT, ABSENT, ABSENT, "t2"),
     Rec("t1", "t2", "t2", "t2"),
     Rec(EMPTY, ABSENT, "t2", ABSENT),
     Rec(ABSENT, ABSENT, ABSENT, ABSENT)}

\* The lookup with the first two shapes tried in the other order.
ExtractTokenFieldsFirst(rec) ==
    IF rec.fields # ABSENT THEN rec.fields
    ELSE IF rec.tokens # ABSENT THEN rec.tokens
    ELSE IF rec.token # ABSENT THEN rec.token
    ELSE IF rec.bare # ABSENT THEN rec.bare
    ELSE NULL

\* if 'tokens' in rec and table_column in rec['tokens'] ... elif ... (token = None first)
ExtractToken(rec) ==
    IF rec.tokens # ABSENT THEN rec.tokens
    ELSE IF rec.fields # ABSENT THEN rec.fields
    ELSE IF rec.token # ABSENT THEN rec.token
    ELSE IF rec.bare # ABSENT THEN rec.bare
    ELSE NULL

\* if token:
Truthy(token) == token # NULL /\ token # EMPTY

Min(a, b) == IF a < b THEN a ELSE b

\* The binding with the usable tokens collected first and then paired with
\* the rows of the batch from the top.
BindTokensCompacted(batch_data, records) ==
    LET all == [i \in 1..Len(records) |-> ExtractToken(records[i])]
        toks == SelectSeq(all, Truthy)
        n == Min(Len(batch_data), Len(toks))
    IN  [i \in 1..n |-> <<batch_data[i].rn, toks[i]>>]

\* for i, token_record in enumerate(result['records']): ... column_tokens.append((rn, token))
BindTokens(batch_data, records) ==
    LET n == Min(Len(batch_data), Len(records))
        pairs == [i \in 1..n |-> <<batch_data[i].rn, ExtractToken(records[i])>>]
    IN  SelectSeq(pairs, LAMBDA pr : Truthy(pr[2]))

\* A response that answers every request record with a usable token.
WellFormed(batch_data, records) ==
    /\ Len(records) = Len(batch_data)
    /\ \A i \in 1..Len(records) : Truthy(ExtractToken(records[i]))

\* What the vault may answer to a request of n records: up to n records of
\* any shape, or n records and one more.
Responses(n) ==
    SeqsUpTo(RecordSet, n)
    \cup {Append(s, Rec("t2", ABSENT, ABSENT, ABSENT)) :
             s \in {t \in SeqsUpTo(RecordSet, n) : Len(t) = n}}

Unrecognized(rec) ==
    rec.tokens = ABSENT /\ rec.fields = ABSENT /\ rec.token = ABSENT /\ rec.bare = ABSENT

\* ----------------------------------------------------------------- tables
\* The selection without its WHERE clause.
SelectValuesUnfiltered(snapshot, c) ==
    [i \in 1..Len(snapshot) |->
        [rn |-> snapshot[i].rn, pii_value |-> snapshot[i].row.pii[c]]]

\* SELECT rn, col AS pii_value FROM snap WHERE col IS NOT NULL AND TRIM(col) != '' ORDER BY rn
SelectValues(snapshot, c) ==
    LET vals == [i \in 1..Len(snapshot) |->
                    [rn |-> snapshot[i].rn, pii_value |-> snapshot[i].row.pii[c]]]
    IN  SelectSeq(vals, LAMBDA v : Tokenizable(v.pii_value))

NoTokens == [c \in PiiSet |-> NULL]

\* The statement as a plain INSERT of one row per (rn, token).
MergeTokensInsertOnly(stg, c, toks) ==
    stg \o [i \in 1..Len(toks) |->
               [rn |-> toks[i][1], tok |-> [NoTokens EXCEPT ![c] = toks[i][2]]]]

\* The statement with WHEN MATCHED updating only a token column that is null.
MergeTokensKeepsFirst(stg, c, toks) ==
    LET tokOf(rn) == (CHOOSE i \in 1..Len(toks) : toks[i][1] = rn)
        matched(rn) == \E i \in 1..Len(toks) : toks[i][1] = rn
        updated == [i \in 1..Len(stg) |->
                       IF matched(stg[i].rn) /\ stg[i].tok[c] = NULL
                       THEN [stg[i] EXCEPT !.tok[c] = toks[tokOf(stg[i].rn)][2]]
                       ELSE stg[i]]
        fresh == SelectSeq(toks, LAMBDA pr : \A i \in 1..Len(stg) : stg[i].rn # pr[1])
        inserted == [i \in 1..Len(fresh) |->
                        [rn |-> fresh[i][1], tok |-> [NoTokens EXCEPT ![c] = fresh[i][2]]]]
    IN  updated \o inserted

\* MERGE INTO staging USING (VALUES ...) ON target.rn = source.rn
\* WHEN MATCHED THEN UPDATE SET col_token = source.token
\* WHEN NOT MATCHED THEN INSERT (rn, col_token) VALUES (source.rn, source.token)
MergeTokens(stg, c, toks) ==
    LET tokOf(rn) == (CHOOSE i \in 1..Len(toks) : toks[i][1] = rn)
        matched(rn) == \E i \in 1..Len(toks) : toks[i][1] = rn
        updated == [i \in 1..Len(stg) |->
                       IF matched(stg[i].rn)
                       THEN [stg[i] EXCEPT !.tok[c] = toks[tokOf(stg[i].rn)][2]]
                       ELSE stg[i]]
        fresh == SelectSeq(toks, LAMBDA pr : \A i \in 1..Len(stg) : stg[i].rn # pr[1])
        inserted == [i \in 1..Len(fresh) |->
                        [rn |-> fresh[i][1], tok |-> [NoTokens EXCEPT ![c] = fresh[i][2]]]]
    IN  updated \o inserted

\* The fallback with its arguments in the other order.
CoalesceOriginalFirst(a, b) == IF b # NULL THEN b ELSE a

\* COALESCE(stg.col_token, s.col)
Coalesce(a, b) == IF a # NULL THEN a ELSE b

RECURSIVE Flatten(_)
Flatten(ss) == IF ss = <<>> THEN <<>> ELSE Head(ss) \o Flatten(Tail(ss))

\* The rebuild with the row number selected in the place of total_purchases.
RebuildRowNumber(snapshot, stg) ==
    LET joined(s) ==
            LET m == SelectSeq(stg, LAMBDA g : g.rn = s.rn)
            IN  IF m = <<>> THEN <<NoTokens>> ELSE [i \in 1..Len(m) |-> m[i].tok]
        out(s) == LET j == joined(s)
                  IN  [i \in 1..Len(j) |->
                          [customer_id |-> s.row.customer_id,
                           pii |-> [c \in PiiSet |-> Coalesce(j[i][c], s.row.pii[c])],
                           total_purchases |-> s.rn]]
    IN  Flatten([i \in 1..Len(snapshot) |-> out(snapshot[i])])

\* CREATE OR REPLACE TABLE new AS SELECT s.customer_id, COALESCE(...), others
\* FROM snap s LEFT JOIN staging stg USING (rn)
Rebuild(snapshot, stg) ==
    LET joined(s) ==
            LET m == SelectSeq(stg, LAMBDA g : g.rn = s.rn)
            IN  IF m = <<>> THEN <<NoTokens>> ELSE [i \in 1..Len(m) |-> m[i].tok]
        out(s) == LET j == joined(s)
                  IN  [i \in 1..Len(j) |->
                          [customer_id |-> s.row.customer_id,
                           pii |-> [c \in PiiSet |-> Coalesce(j[i][c], s.row.pii[c])],
                           total_purchases |-> s.row.total_purchases]]
    IN  Flatten([i \in 1..Len(snapshot) |-> out(snapshot[i])])

\* SELECT COUNT(*) FROM t
Count(t) == Len(t)

\* An exchange that appends the new rows to the old ones.
SwapSourceAppending(src, new) == src \o new

\* ALTER TABLE source SWAP WITH new: what each name holds afterwards.
SwapSource(src, new) == new

SwapNew(src, new) == src

\* ------------------------------------------------------------------ state
VARIABLES
    source,                 \* Source Table ({prefix}_customer_data): sequence of rows
    snap_table,             \* SNAP_CUSTOMER: NoTable or Table of [rn, row]
    staging_table,          \* TOK_ALL: NoTable or Table of [rn, tok]
    new_table,              \* {prefix}_customer_data_NEW: NoTable or Table of rows
    batch_size,             \* the configured batch size
    pc,                     \* position of the caller / handler
    col,                    \* index into pii_columns of the column pass
    values_data,            \* rows selected for the column pass
    batch_start,            \* 0-based start of the current batch
    column_tokens,          \* (rn, token) pairs collected for the column
    total_api_calls,
    total_tokens_processed,
    old_rows,
    new_rows,
    result,                 \* kind of the string the handler returned
    exec_result,            \* what execute_tokenization_procedure returned: "True", "False"
    \* history of the run, read only by the properties
    writes,                 \* external writes so far
    baseline,               \* Source Table as the external writers alone made it
    rows_at_snap,           \* COUNT(*) of Source Table when the snapshot was taken
    built,                  \* the rows of the Replacement Table as the rebuild produced them
    swaps,                  \* executions of the swap statement
    attempts,               \* HTTP requests issued for the current batch
    http_error,             \* kind of the HTTP failure that ended the run
    well_formed,            \* every vault response so far was well formed
    unrecognized,           \* some bound response record matched no shape
    posts,                  \* HTTP requests issued in the run
    sent,                   \* the records of each request of the column pass, in order
    response,               \* <<records>> when the step just taken bound a response, else <<>>
    error_column,           \* the column the returned API error message names
    runs,                   \* calls of execute_tokenization_procedure so far
    error_text,             \* the statement whose error text the failure message carries
    other_pc,               \* position of a second invocation of the procedure ("off": none)
    \* execute_with_retry(operation, max_retries, delay)
    r_pc,                   \* position in execute_with_retry ("off": not called)
    max_retries,            \* the parameter max_retries
    delay0,                 \* the parameter delay as passed
    delay,                  \* the local delay
    attempt,                \* the loop variable attempt
    last_error,             \* the local last_error
    calls,                  \* calls of operation() so far
    sleeps,                 \* the arguments of the time.sleep calls so far, in order
    raised,                 \* the error of each failed attempt so far, in order
    retry_result,           \* what the call did: <<"returned", v>>, <<"raised", e>>, or <<>> while running
    \* SnowflakeSQLExecutor.execute_sql_file(file_path, substitutions)
    f_pc,                   \* position in execute_sql_file ("off": not called)
    path_exists,            \* path.exists()
    raw_statements,         \* sql_content.split(';')
    statements,             \* the local statements
    executed,               \* the statements passed to execute_statement so far, in order
    applied,                \* the statements Snowflake has executed, in order
    file_result,            \* what execute_sql_file returned: "True", "False"
    \* DestroyCommand.execute
    d_pc,                   \* position in DestroyCommand.execute ("off": not called)
    failed_deletions,       \* the local failed_deletions
    drop_failed,            \* the resources whose removal failed or left the resource behind
    destroy_result,         \* what DestroyCommand.execute returned: "True", "False"
    \* CreateCommand.execute
    c_pc,                   \* position in CreateCommand.execute ("off": not called)
    steps,                  \* the steps executed so far, in order
    step_failed,            \* the steps that reported failure
    tokenization_success,   \* the local tokenization_success
    create_result,          \* what CreateCommand.execute returned: "True", "False"
    \* the Snowflake account and the configuration
    database,               \* {prefix}_database exists
    secret,                 \* SECRET_STRING of SKYFLOW_PAT_TOKEN, ABSENT when there is no such secret
    pat_token               \* config.skyflow.pat_token

vars == <<source, snap_table, staging_table, new_table, batch_size, pc, col,
          values_data, batch_start, column_tokens, total_api_calls,
          total_tokens_processed, old_rows, new_rows, result, exec_result,
          writes, baseline, rows_at_snap, built, swaps, attempts, http_error,
          well_formed, unrecognized, posts, sent, response, error_column, runs,
          error_text, other_pc, r_pc, max_retries, delay0, delay, attempt, last_error,
          calls, sleeps, raised, retry_result, f_pc, path_exists, raw_statements,
          statements, executed, applied, file_result, d_pc, failed_deletions,
          drop_failed, destroy_result, c_pc, steps, step_failed,
          tokenization_success, create_result, database, secret, pat_token>>

tables == <<source, snap_table, staging_table, new_table>>

locals == <<col, values_data, batch_start, column_tokens, total_api_calls,
            total_tokens_processed, old_rows, new_rows>>

history == <<rows_at_snap, built, swaps, attempts, http_error, well_formed, unrecognized>>

requests == <<posts, sent, error_column>>

retry == <<r_pc, max_retries, delay0, delay, attempt, last_error, calls, sleeps, raised,
           retry_result>>

sqlfile == <<f_pc, path_exists, raw_statements, statements, executed, applied, file_result>>

destroy == <<d_pc, failed_deletions, drop_failed, destroy_result>>

create == <<c_pc, steps, step_failed, tokenization_success, create_result>>

snowflake == <<database, secret, pat_token>>

cli == <<sqlfile, destroy, create, snowflake>>

\* execute_sql_file is not running.
SqlFileOff ==
    /\ f_pc = "off"
    /\ path_exists = FALSE
    /\ raw_statements = <<>>
    /\ statements = <<>>
    /\ executed = <<>>
    /\ applied = <<>>
    /\ file_result = NONE

\* DestroyCommand.execute is not running.
DestroyOff ==
    /\ d_pc = "off"
    /\ failed_deletions = {}
    /\ drop_failed = {}
    /\ destroy_result = NONE

\* CreateCommand.execute is not running.
CreateOff ==
    /\ c_pc = "off"
    /\ steps = <<>>
    /\ step_failed = {}
    /\ tokenization_success = NONE
    /\ create_result = NONE

\* Neither command of the CLI is running and no account is looked at.
CliOff ==
    /\ SqlFileOff
    /\ DestroyOff
    /\ CreateOff
    /\ database = FALSE
    /\ secret = ABSENT
    /\ pat_token = NONE

\* execute_with_retry is not running.
RetryOff ==
    /\ r_pc = "off"
    /\ max_retries = 0
    /\ delay0 = 0
    /\ delay = 0
    /\ attempt = 0
    /\ last_error = NONE
    /\ calls = 0
    /\ sleeps = <<>>
    /\ raised = <<>>
    /\ retry_result = <<>>

\* No scratch table exists and no statement of the handler has run.
Fresh ==
    /\ snap_table = NoTable
    /\ staging_table = NoTable
    /\ new_table = NoTable
    /\ col = 0
    /\ values_data = <<>>
    /\ batch_start = 0
    /\ column_tokens = <<>>
    /\ total_api_calls = 0
    /\ total_tokens_processed = 0
    /\ old_rows = Unbound
    /\ new_rows = Unbound
    /\ result = NONE
    /\ exec_result = NONE
    /\ writes = 0
    /\ baseline = source
    /\ rows_at_snap = Unbound
    /\ built = <<>>
    /\ swaps = 0
    /\ attempts = 0
    /\ http_error = NONE
    /\ well_formed = TRUE
    /\ unrecognized = FALSE
    /\ posts = 0
    /\ sent = <<>>
    /\ response = <<>>
    /\ error_column = NONE
    /\ runs = 1
    /\ error_text = NONE

Init ==
    /\ source \in SeqsUpTo(RowSet, MaxRows)
    /\ batch_size \in 1..MaxBatch
    /\ pc = "idle"
    /\ other_pc = "off"
    /\ RetryOff
    /\ Fresh
    /\ CliOff

\* return <string> from the handler, or the except clause's return
Return(kind) ==
    /\ result' = kind
    /\ pc' = "returned"

\* ----------------------------------------------------------------- caller
\* execute_tokenization_procedure: cursor.execute("CALL ...") starts the handler
CallProcedure ==
    /\ pc = "idle"
    /\ pc' = "snapshot"
    /\ UNCHANGED <<tables, batch_size, locals, result, exec_result, writes, baseline, history>>
    /\ response' = <<>>
    /\ UNCHANGED <<requests, runs, error_text, other_pc, retry, cli>>

\* cursor.execute raises SnowflakeError (the procedure never ran): return False
CallRaises ==
    /\ pc = "idle"
    /\ pc' = "finished"
    /\ exec_result' = "False"
    /\ UNCHANGED <<tables, batch_size, locals, result, writes, baseline, history>>
    /\ response' = <<>>
    /\ UNCHANGED <<requests, runs, error_text, other_pc, retry, cli>>

\* result = cursor.fetchone(); ...; return True
ExecReturn ==
    /\ pc = "returned"
    /\ pc' = "finished"
    /\ exec_result' = "True"
    /\ UNCHANGED <<tables, batch_size, locals, result, writes, baseline, history>>
    /\ response' = <<>>
    /\ UNCHANGED <<requests, runs, error_text, other_pc, retry, cli>>

\* ---------------------------------------------------------------- handler
\* The snapshot without the early return on COUNT(*) = 0.
SnapshotNoEarlyReturn ==
    /\ pc = "snapshot"
    /\ \E s \in Snapshots(source) : snap_table' = Table(s)
    /\ pc' = "staging"
    /\ rows_at_snap' = Count(source)
    /\ UNCHANGED <<source, staging_table, new_table, batch_size, locals, result,
                   exec_result, writes, baseline, built, swaps, attempts, http_error,
                   well_formed, unrecognized>>
    /\ response' = <<>>
    /\ UNCHANGED <<requests, runs, error_text, other_pc, retry, cli>>

\* Step 1: snapshot, COUNT(*), early return
Snapshot ==
    /\ pc = "snapshot"
    /\ \E s \in Snapshots(source) :
          /\ snap_table' = Table(s)
          /\ IF Count(s) = 0
             THEN Return("no_rows")
             ELSE pc' = "staging" /\ UNCHANGED result
    /\ rows_at_snap' = Count(source)
    /\ UNCHANGED <<source, staging_table, new_table, batch_size, locals, exec_result,
                   writes, baseline, built, swaps, attempts, http_error, well_formed,
                   unrecognized>>
    /\ response' = <<>>
    /\ UNCHANGED <<requests, runs, error_text, other_pc, retry, cli>>

\* Step 2: CREATE OR REPLACE TRANSIENT TABLE TOK_ALL
CreateStaging ==
    /\ pc = "staging"
    /\ staging_table' = Table(<<>>)
    /\ col' = 1
    /\ pc' = "select"
    /\ UNCHANGED <<source, snap_table, new_table, batch_size, values_data, batch_start,
                   column_tokens, total_api_calls, total_tokens_processed, old_rows,
                   new_rows, result, exec_result, writes, baseline, history>>
    /\ response' = <<>>
    /\ UNCHANGED <<requests, runs, error_text, other_pc, retry, cli>>

\* The column loop left after its first column.
SelectColumnOnce ==
    /\ pc = "select"
    /\ IF col > 1
       THEN /\ pc' = "ctas"
            /\ UNCHANGED <<col, values_data, batch_start, column_tokens>>
       ELSE LET vd == SelectValues(snap_table.rows, pii_columns[col])
            IN  /\ values_data' = vd
                /\ IF vd = <<>>
                   THEN /\ col' = col + 1
                        /\ pc' = "select"
                        /\ UNCHANGED <<batch_start, column_tokens>>
                   ELSE /\ column_tokens' = <<>>
                        /\ batch_start' = 0
                        /\ pc' = "vault"
                        /\ UNCHANGED col
    /\ UNCHANGED <<tables, batch_size, total_api_calls, total_tokens_processed, old_rows,
                   new_rows, result, exec_result, writes, baseline, history>>
    /\ sent' = <<>>
    /\ response' = <<>>
    /\ UNCHANGED <<posts, error_column, runs, error_text, other_pc, retry, cli>>

\* Step 3, head of the column loop: select the column's values; skip the
\* column when there is none; leave the loop after the last column.
SelectColumn ==
    /\ pc = "select"
    /\ IF col > NumCols
       THEN /\ pc' = "ctas"
            /\ UNCHANGED <<col, values_data, batch_start, column_tokens>>
       ELSE LET vd == SelectValues(snap_table.rows, pii_columns[col])
            IN  /\ values_data' = vd
                /\ IF vd = <<>>
                   THEN /\ col' = col + 1
                        /\ pc' = "select"
                        /\ UNCHANGED <<batch_start, column_tokens>>
                   ELSE /\ column_tokens' = <<>>
                        /\ batch_start' = 0
                        /\ pc' = "vault"
                        /\ UNCHANGED col
    /\ UNCHANGED <<tables, batch_size, total_api_calls, total_tokens_processed, old_rows,
                   new_rows, result, exec_result, writes, baseline, history>>
    /\ sent' = <<>>
    /\ response' = <<>>
    /\ UNCHANGED <<posts, error_column, runs, error_text, other_pc, retry, cli>>

\* The slice without its upper end.
BatchDataToEnd == SubSeq(values_data, batch_start + 1, Len(values_data))

\* batch_data = values_data[batch_start:batch_end]
BatchData == SubSeq(values_data, batch_start + 1, Min(batch_start + batch_size, Len(values_data)))

\* skyflow_records.append({"fields": {table_column: str(row['PII_VALUE'])}}):
\* the values the request carries, each with the row id it was read from
skyflow_records ==
    [i \in 1..Len(BatchData) |-> [rn |-> BatchData[i].rn, value |-> BatchData[i].pii_value]]

\* requests.post(...) times out or raise_for_status() raises: the except clause returns
VaultHttpError ==
    /\ pc = "vault"
    /\ \E kind \in {"transient", "client"} : http_error' = kind
    /\ attempts' = 1
    /\ Return("failed")
    /\ UNCHANGED <<tables, batch_size, locals, exec_result, writes, baseline, rows_at_snap,
                   built, swaps, well_formed, unrecognized>>
    /\ posts' = posts + 1
    /\ sent' = Append(sent, skyflow_records)
    /\ response' = <<>>
    /\ error_text' = "vault"
    /\ UNCHANGED <<error_column, runs, other_pc, retry, cli>>

\* The response without records skipped, the loop going on with the next batch.
VaultNoRecordsSkipsBatch ==
    /\ pc = "vault"
    /\ well_formed' = FALSE
    /\ batch_start' = batch_start + batch_size
    /\ IF batch_start + batch_size < Len(values_data)
       THEN pc' = "vault" /\ attempts' = 0
       ELSE pc' = "merge" /\ attempts' = 1
    /\ posts' = posts + 1
    /\ sent' = Append(sent, skyflow_records)
    /\ response' = <<>>
    /\ UNCHANGED <<tables, batch_size, col, values_data, column_tokens, total_api_calls,
                   total_tokens_processed, old_rows, new_rows, result, exec_result, writes,
                   baseline, rows_at_snap, built, swaps, http_error, unrecognized,
                   error_column, runs, error_text, other_pc, retry, cli>>

\* if not result or 'records' not in result: return "Skyflow API error ..."
VaultNoRecords ==
    /\ pc = "vault"
    /\ attempts' = 1
    /\ well_formed' = FALSE
    /\ Return("api_error")
    /\ UNCHANGED <<tables, batch_size, locals, exec_result, writes, baseline, rows_at_snap,
                   built, swaps, http_error, unrecognized>>
    /\ posts' = posts + 1
    /\ sent' = Append(sent, skyflow_records)
    /\ error_column' = pii_columns[col]
    /\ response' = <<>>
    /\ UNCHANGED <<runs, error_text, other_pc, retry, cli>>

\* One batch: post, bind the tokens of result['records'], count the call,
\* and go on with the next batch or, after the last, with the merge.
VaultBatch ==
    /\ pc = "vault"
    /\ \E records \in Responses(Len(BatchData)) :
          /\ column_tokens' = column_tokens \o BindTokens(BatchData, records)
          /\ response' = <<records>>
          /\ well_formed' = (well_formed /\ WellFormed(BatchData, records))
          /\ unrecognized' =
                (unrecognized \/ \E i \in 1..Min(Len(BatchData), Len(records)) :
                                     Unrecognized(records[i]))
    /\ total_api_calls' = total_api_calls + 1
    /\ batch_start' = batch_start + batch_size
    /\ IF batch_start + batch_size < Len(values_data)
       THEN pc' = "vault" /\ attempts' = 0
       ELSE pc' = "merge" /\ attempts' = 1
    /\ UNCHANGED <<tables, batch_size, col, values_data, total_tokens_processed, old_rows,
                   new_rows, result, exec_result, writes, baseline, rows_at_snap, built,
                   swaps, http_error>>
    /\ posts' = posts + 1
    /\ sent' = Append(sent, skyflow_records)
    /\ UNCHANGED <<error_column, runs, error_text, other_pc, retry, cli>>

\* The merge counting the values sent in the place of the tokens merged.
MergeColumnCountsValues ==
    /\ pc = "merge"
    /\ IF column_tokens # <<>>
       THEN /\ staging_table' = Table(MergeTokens(staging_table.rows, pii_columns[col], column_tokens))
            /\ total_tokens_processed' = total_tokens_processed + Len(values_data)
       ELSE UNCHANGED <<staging_table, total_tokens_processed>>
    /\ col' = col + 1
    /\ attempts' = 0
    /\ pc' = "select"
    /\ UNCHANGED <<source, snap_table, new_table, batch_size, values_data, batch_start,
                   column_tokens, total_api_calls, old_rows, new_rows, result, exec_result,
                   writes, baseline, rows_at_snap, built, swaps, http_error, well_formed,
                   unrecognized>>
    /\ response' = <<>>
    /\ UNCHANGED <<posts, sent, error_column, runs, error_text, other_pc, retry, cli>>

\* if column_tokens: MERGE ...; total_tokens_processed += len(column_tokens)
MergeColumn ==
    /\ pc = "merge"
    /\ IF column_tokens # <<>>
       THEN /\ staging_table' = Table(MergeTokens(staging_table.rows, pii_columns[col], column_tokens))
            /\ total_tokens_processed' = total_tokens_processed + Len(column_tokens)
       ELSE UNCHANGED <<staging_table, total_tokens_processed>>
    /\ col' = col + 1
    /\ attempts' = 0
    /\ pc' = "select"
    /\ UNCHANGED <<source, snap_table, new_table, batch_size, values_data, batch_start,
                   column_tokens, total_api_calls, old_rows, new_rows, result, exec_result,
                   writes, baseline, rows_at_snap, built, swaps, http_error, well_formed,
                   unrecognized>>
    /\ response' = <<>>
    /\ UNCHANGED <<posts, sent, error_column, runs, error_text, other_pc, retry, cli>>

\* The rebuild written over the live table instead of the replacement table.
RebuildInPlace ==
    /\ pc = "ctas"
    /\ source' = Rebuild(snap_table.rows, staging_table.rows)
    /\ new_table' = Table(source')
    /\ built' = source'
    /\ pc' = "validate"
    /\ UNCHANGED <<snap_table, staging_table, batch_size, locals, result,
                   exec_result, writes, baseline, rows_at_snap, swaps, attempts,
                   http_error, well_formed, unrecognized>>
    /\ response' = <<>>
    /\ UNCHANGED <<requests, runs, error_text, other_pc, retry, cli>>

\* Step 4: CTAS of the replacement table
RebuildTable ==
    /\ pc = "ctas"
    /\ new_table' = Table(Rebuild(snap_table.rows, staging_table.rows))
    /\ built' = new_table'.rows
    /\ pc' = "validate"
    /\ UNCHANGED <<source, snap_table, staging_table, batch_size, locals, result,
                   exec_result, writes, baseline, rows_at_snap, swaps, attempts,
                   http_error, well_formed, unrecognized>>
    /\ response' = <<>>
    /\ UNCHANGED <<requests, runs, error_text, other_pc, retry, cli>>

\* The validation with the comparison's result ignored.
ValidateUnchecked ==
    /\ pc = "validate"
    /\ old_rows' = Count(source)
    /\ new_rows' = Count(new_table.rows)
    /\ pc' = "swap"
    /\ UNCHANGED <<tables, batch_size, col, values_data, batch_start, column_tokens,
                   total_api_calls, total_tokens_processed, result, exec_result, writes,
                   baseline, history>>
    /\ response' = <<>>
    /\ UNCHANGED <<requests, runs, error_text, other_pc, retry, cli>>

\* Step 5: both counts in one statement; return on mismatch
Validate ==
    /\ pc = "validate"
    /\ old_rows' = Count(source)
    /\ new_rows' = Count(new_table.rows)
    /\ IF old_rows' # new_rows'
       THEN Return("validation_failed")
       ELSE pc' = "swap" /\ UNCHANGED result
    /\ UNCHANGED <<tables, batch_size, col, values_data, batch_start, column_tokens,
                   total_api_calls, total_tokens_processed, exec_result, writes, baseline,
                   history>>
    /\ response' = <<>>
    /\ UNCHANGED <<requests, runs, error_text, other_pc, retry, cli>>

\* Step 6: ALTER TABLE source SWAP WITH new
Swap ==
    /\ pc = "swap"
    /\ source' = SwapSource(source, new_table.rows)
    /\ new_table' = Table(SwapNew(source, new_table.rows))
    /\ swaps' = swaps + 1
    /\ pc' = "drop_new"
    /\ UNCHANGED <<snap_table, staging_table, batch_size, locals, result, exec_result,
                   writes, baseline, rows_at_snap, built, attempts, http_error,
                   well_formed, unrecognized>>
    /\ response' = <<>>
    /\ UNCHANGED <<requests, runs, error_text, other_pc, retry, cli>>

\* The drop with its error passed on to the outer except clause.
DropNewFatal ==
    /\ pc = "drop_new"
    /\ \/ new_table' = NoTable /\ pc' = "cleanup" /\ UNCHANGED result
       \/ UNCHANGED new_table /\ Return("failed")
    /\ UNCHANGED <<source, snap_table, staging_table, batch_size, locals,
                   exec_result, writes, baseline, history>>
    /\ response' = <<>>
    /\ UNCHANGED <<requests, runs, error_text, other_pc, retry, cli>>

\* Step 7: DROP TABLE IF EXISTS new; an error is swallowed
DropNew ==
    /\ pc = "drop_new"
    /\ \/ new_table' = NoTable
       \/ UNCHANGED new_table
    /\ pc' = "cleanup"
    /\ UNCHANGED <<source, snap_table, staging_table, batch_size, locals, result,
                   exec_result, writes, baseline, history>>
    /\ response' = <<>>
    /\ UNCHANGED <<requests, runs, error_text, other_pc, retry, cli>>

\* Step 8: drop snapshot, then staging, in one try block; then return the summary
Cleanup ==
    /\ pc = "cleanup"
    /\ \/ snap_table' = NoTable /\ staging_table' = NoTable
       \/ snap_table' = NoTable /\ UNCHANGED staging_table
       \/ UNCHANGED <<snap_table, staging_table>>
    /\ Return("complete")
    /\ UNCHANGED <<source, new_table, batch_size, locals, exec_result, writes, baseline,
                   history>>
    /\ response' = <<>>
    /\ UNCHANGED <<requests, runs, error_text, other_pc, retry, cli>>

\* A statement of steps 1-6 raises: except Exception returns the failure text
SqlPositions == {"snapshot", "staging", "select", "merge", "ctas", "validate", "swap"}

\* The except clause dropping the replacement table before it returns.
SqlErrorCompensating ==
    /\ pc \in SqlPositions
    /\ ~(pc = "select" /\ col > NumCols)
    /\ ~(pc = "merge" /\ column_tokens = <<>>)
    /\ Return("failed")
    /\ error_text' = pc
    /\ new_table' = NoTable
    /\ UNCHANGED <<source, snap_table, staging_table, batch_size, locals, exec_result,
                   writes, baseline, history>>
    /\ response' = <<>>
    /\ UNCHANGED <<requests, runs, other_pc, retry, cli>>

SqlError ==
    /\ pc \in SqlPositions
    /\ ~(pc = "select" /\ col > NumCols)
    /\ ~(pc = "merge" /\ column_tokens = <<>>)
    /\ Return("failed")
    /\ error_text' = pc
    /\ UNCHANGED <<tables, batch_size, locals, exec_result, writes, baseline, history>>
    /\ response' = <<>>
    /\ UNCHANGED <<requests, runs, other_pc, retry, cli>>

\* ------------------------------------------------------------ environment
RemoveAt(s, i) == SubSeq(s, 1, i - 1) \o SubSeq(s, i + 1, Len(s))

\* What one external statement can make of the table: an INSERT of a row,
\* a DELETE of a row, an UPDATE of a row's non-sensitive column.
InsertRows ==
    {[customer_id |-> 1, pii |-> [c \in PiiSet |-> NULL], total_purchases |-> 0],
     [customer_id |-> 2, pii |-> [c \in PiiSet |-> "a"], total_purchases |-> 0]}

Written(t) ==
    {Append(t, r) : r \in InsertRows}
    \cup {RemoveAt(t, i) : i \in 1..Len(t)}
    \cup {[t EXCEPT ![i].total_purchases = 1] : i \in 1..Len(t)}

\* The run holds no lock on Source Table between its snapshot and its swap.
WritePositions == {"staging", "select", "vault", "merge", "ctas", "validate", "swap"}

ExternalWrite ==
    /\ pc \in WritePositions
    /\ writes < MaxWrites
    /\ \E t \in Written(source) : source' = t /\ baseline' = t
    /\ writes' = writes + 1
    /\ UNCHANGED <<snap_table, staging_table, new_table, batch_size, pc, locals, result,
                   exec_result, history>>
    /\ response' = <<>>
    /\ UNCHANGED <<requests, runs, error_text, other_pc, retry, cli>>

Next ==
    \/ CallProcedure
    \/ CallRaises
    \/ ExecReturn
    \/ Snapshot
    \/ CreateStaging
    \/ SelectColumn
    \/ VaultHttpError
    \/ VaultNoRecords
    \/ VaultBatch
    \/ MergeColumn
    \/ RebuildTable
    \/ Validate
    \/ Swap
    \/ DropNew
    \/ Cleanup
    \/ SqlError
    \/ ExternalWrite

Spec == Init /\ [][Next]_vars

\* ----------------------------------------------------------------- re-run
\* The tables a run that may be called again starts on: up to MaxValues
\* rows, each with a value to tokenize; the two kinds of row have the same
\* values in the columns the snapshot orders by.
RerunRows ==
    {[customer_id |-> 1, pii |-> [first_name |-> "a", email |-> "b"], total_purchases |-> 0],
     [customer_id |-> 1, pii |-> [first_name |-> NULL, email |-> "b"], total_purchases |-> 0]}

InitRerun ==
    /\ source \in SeqsUpTo(RerunRows, MaxValues)
    /\ batch_size \in 1..MaxBatch
    /\ pc = "idle"
    /\ other_pc = "off"
    /\ RetryOff
    /\ Fresh
    /\ CliOff

\* The run ended in the pass of a column: a failed request, a response
\* without records or a failed statement of the pass.
AbortedInColumn ==
    /\ pc = "finished"
    /\ result \in {"failed", "api_error"}
    /\ col \in 1..NumCols

\* execute_tokenization_procedure called again after such a run: the handler
\* starts from its first statement on the tables the aborted run left.
RerunAfterAbort ==
    /\ AbortedInColumn
    /\ runs < MaxRuns
    /\ runs' = runs + 1
    /\ pc' = "idle"
    /\ col' = 0
    /\ values_data' = <<>>
    /\ batch_start' = 0
    /\ column_tokens' = <<>>
    /\ total_api_calls' = 0
    /\ total_tokens_processed' = 0
    /\ old_rows' = Unbound
    /\ new_rows' = Unbound
    /\ result' = NONE
    /\ exec_result' = NONE
    /\ rows_at_snap' = Unbound
    /\ built' = <<>>
    /\ swaps' = 0
    /\ attempts' = 0
    /\ http_error' = NONE
    /\ well_formed' = TRUE
    /\ unrecognized' = FALSE
    /\ posts' = 0
    /\ sent' = <<>>
    /\ response' = <<>>
    /\ error_column' = NONE
    /\ error_text' = NONE
    /\ UNCHANGED <<tables, batch_size, writes, baseline, other_pc, retry, cli>>

NextRerun ==
    \/ CallProcedure
    \/ CallRaises
    \/ ExecReturn
    \/ Snapshot
    \/ CreateStaging
    \/ SelectColumn
    \/ VaultHttpError
    \/ VaultNoRecords
    \/ VaultBatch
    \/ MergeColumn
    \/ RebuildTable
    \/ Validate
    \/ Swap
    \/ DropNew
    \/ Cleanup
    \/ SqlError
    \/ RerunAfterAbort

SpecRerun == InitRerun /\ [][NextRerun]_vars

\* ------------------------------------------------------ second invocation
\* A second CALL of the procedure, followed through its first two
\* statements: the handler's table names are the same in every invocation
\* (snap_table = 'SNAP_CUSTOMER', staging_table = 'TOK_ALL', both TRANSIENT).
InitTwo ==
    /\ source \in SeqsUpTo(RerunRows, MaxRows)
    /\ batch_size \in 1..MaxBatch
    /\ pc = "idle"
    /\ other_pc = "snapshot"
    /\ RetryOff
    /\ Fresh
    /\ CliOff

\* Step 1 of the second invocation
OtherSnapshot ==
    /\ other_pc = "snapshot"
    /\ \E s \in Snapshots(source) :
          /\ snap_table' = Table(s)
          /\ other_pc' = IF Count(s) = 0 THEN "returned" ELSE "staging"
    /\ response' = <<>>
    /\ UNCHANGED <<source, staging_table, new_table, batch_size, pc, locals, result,
                   exec_result, writes, baseline, history, requests, runs, error_text,
                   retry, cli>>

\* Step 2 of the second invocation
OtherCreateStaging ==
    /\ other_pc = "staging"
    /\ staging_table' = Table(<<>>)
    /\ other_pc' = "select"
    /\ response' = <<>>
    /\ UNCHANGED <<source, snap_table, new_table, batch_size, pc, locals, result,
                   exec_result, writes, baseline, history, requests, runs, error_text,
                   retry, cli>>

NextTwo ==
    \/ CallProcedure
    \/ CallRaises
    \/ ExecReturn
    \/ Snapshot
    \/ CreateStaging
    \/ SelectColumn
    \/ VaultHttpError
    \/ VaultNoRecords
    \/ VaultBatch
    \/ MergeColumn
    \/ RebuildTable
    \/ Validate
    \/ Swap
    \/ DropNew
    \/ Cleanup
    \/ SqlError
    \/ OtherSnapshot
    \/ OtherCreateStaging

SpecTwo == InitTwo /\ [][NextTwo]_vars

\* ------------------------------------------------- run after a completed run
\* The tables of a deployment whose procedure is called a second time.
InitAgain ==
    /\ source \in SeqsUpTo(RerunRows, MaxAgainRows)
    /\ batch_size \in 1..MaxBatch
    /\ pc = "idle"
    /\ other_pc = "off"
    /\ RetryOff
    /\ Fresh
    /\ CliOff

\* execute_tokenization_procedure called again after a run that swapped and
\* returned the completion message: the handler starts from its first
\* statement on Source Table as the first run published it.
RerunAfterComplete ==
    /\ pc = "finished"
    /\ result = "complete"
    /\ runs < MaxRuns
    /\ runs' = runs + 1
    /\ pc' = "idle"
    /\ baseline' = source
    /\ col' = 0
    /\ values_data' = <<>>
    /\ batch_start' = 0
    /\ column_tokens' = <<>>
    /\ total_api_calls' = 0
    /\ total_tokens_processed' = 0
    /\ old_rows' = Unbound
    /\ new_rows' = Unbound
    /\ result' = NONE
    /\ exec_result' = NONE
    /\ rows_at_snap' = Unbound
    /\ built' = <<>>
    /\ swaps' = 0
    /\ attempts' = 0
    /\ http_error' = NONE
    /\ well_formed' = TRUE
    /\ unrecognized' = FALSE
    /\ posts' = 0
    /\ sent' = <<>>
    /\ response' = <<>>
    /\ error_column' = NONE
    /\ error_text' = NONE
    /\ UNCHANGED <<tables, batch_size, writes, other_pc, retry, cli>>

NextAgain ==
    \/ CallProcedure
    \/ CallRaises
    \/ ExecReturn
    \/ Snapshot
    \/ CreateStaging
    \/ SelectColumn
    \/ VaultHttpError
    \/ VaultNoRecords
    \/ VaultBatch
    \/ MergeColumn
    \/ RebuildTable
    \/ Validate
    \/ Swap
    \/ DropNew
    \/ Cleanup
    \/ SqlError
    \/ RerunAfterComplete

SpecAgain == InitAgain /\ [][NextAgain]_vars

\* ------------------------------------------------------ execute_with_retry
\* What a call of operation() can do: return a value, raise one of two
\* SnowflakeErrors, raise an exception of another class.
SnowflakeErrors == {"e1", "e2"}

pipeline == <<tables, batch_size, pc, locals, result, exec_result, writes, baseline,
              history, requests, response, runs, error_text, other_pc>>

\* execute_with_retry(operation, max_retries, delay) is called; the
\* tokenization procedure is not.
InitRetry ==
    /\ source = <<>>
    /\ batch_size = 1
    /\ pc = "off"
    /\ other_pc = "off"
    /\ Fresh
    /\ r_pc = "loop"
    /\ max_retries \in 0..MaxRetries
    /\ delay0 \in 1..MaxDelay
    /\ delay = delay0
    /\ attempt = 0
    /\ last_error = NONE
    /\ calls = 0
    /\ sleeps = <<>>
    /\ raised = <<>>
    /\ retry_result = <<>>
    /\ CliOff

\* for attempt in range(max_retries): the next iteration, or the end of the loop
RetryLoop ==
    /\ r_pc = "loop"
    /\ r_pc' = IF attempt < max_retries THEN "call" ELSE "raise"
    /\ UNCHANGED <<max_retries, delay0, delay, attempt, last_error, calls, sleeps, raised,
                   retry_result, pipeline, cli>>

\* The call with last_error set by the first failed attempt only.
RetryCallKeepsFirstError ==
    /\ r_pc = "call"
    /\ calls' = calls + 1
    /\ \/ /\ retry_result' = <<"returned", "v">>
          /\ r_pc' = "done"
          /\ UNCHANGED <<last_error, raised, attempt>>
       \/ \E e \in SnowflakeErrors :
             /\ last_error' = IF last_error = NONE THEN e ELSE last_error
             /\ raised' = Append(raised, e)
             /\ IF attempt < max_retries - 1
                THEN r_pc' = "sleep" /\ UNCHANGED attempt
                ELSE r_pc' = "loop" /\ attempt' = attempt + 1
             /\ UNCHANGED retry_result
       \/ /\ retry_result' = <<"raised", "other">>
          /\ r_pc' = "done"
          /\ UNCHANGED <<last_error, raised, attempt>>
    /\ UNCHANGED <<max_retries, delay0, delay, sleeps, pipeline, cli>>

\* The call with `except Exception`: an exception of another class is
\* retried like a SnowflakeError.
RetryCallCatchesAll ==
    /\ r_pc = "call"
    /\ calls' = calls + 1
    /\ \/ /\ retry_result' = <<"returned", "v">>
          /\ r_pc' = "done"
          /\ UNCHANGED <<last_error, raised, attempt>>
       \/ \E e \in SnowflakeErrors \cup {"other"} :
             /\ last_error' = e
             /\ raised' = Append(raised, e)
             /\ IF attempt < max_retries - 1
                THEN r_pc' = "sleep" /\ UNCHANGED attempt
                ELSE r_pc' = "loop" /\ attempt' = attempt + 1
             /\ UNCHANGED retry_result
    /\ UNCHANGED <<max_retries, delay0, delay, sleeps, pipeline, cli>>

\* try: return operation() / except SnowflakeError as e: last_error = e ...
\* (an exception of another class leaves the function at once)
RetryCall ==
    /\ r_pc = "call"
    /\ calls' = calls + 1
    /\ \/ /\ retry_result' = <<"returned", "v">>
          /\ r_pc' = "done"
          /\ UNCHANGED <<last_error, raised, attempt>>
       \/ \E e \in SnowflakeErrors :
             /\ last_error' = e
             /\ raised' = Append(raised, e)
             /\ IF attempt < max_retries - 1
                THEN r_pc' = "sleep" /\ UNCHANGED attempt
                ELSE r_pc' = "loop" /\ attempt' = attempt + 1
             /\ UNCHANGED retry_result
       \/ /\ retry_result' = <<"raised", "other">>
          /\ r_pc' = "done"
          /\ UNCHANGED <<last_error, raised, attempt>>
    /\ UNCHANGED <<max_retries, delay0, delay, sleeps, pipeline, cli>>

\* The wait without the doubling.
RetrySleepConstant ==
    /\ r_pc = "sleep"
    /\ sleeps' = Append(sleeps, delay)
    /\ attempt' = attempt + 1
    /\ r_pc' = "loop"
    /\ UNCHANGED <<max_retries, delay0, delay, last_error, calls, raised, retry_result,
                   pipeline, cli>>

\* time.sleep(delay); delay *= 2
RetrySleep ==
    /\ r_pc = "sleep"
    /\ sleeps' = Append(sleeps, delay)
    /\ delay' = delay * 2
    /\ attempt' = attempt + 1
    /\ r_pc' = "loop"
    /\ UNCHANGED <<max_retries, delay0, last_error, calls, raised, retry_result, pipeline, cli>>

\* raise last_error (raise None is a TypeError)
RetryRaise ==
    /\ r_pc = "raise"
    /\ retry_result' = <<"raised", IF last_error = NONE THEN "TypeError" ELSE last_error>>
    /\ r_pc' = "done"
    /\ UNCHANGED <<max_retries, delay0, delay, attempt, last_error, calls, sleeps, raised,
                   pipeline, cli>>

NextRetry ==
    \/ RetryLoop
    \/ RetryCall
    \/ RetrySleep
    \/ RetryRaise

SpecRetry == InitRetry /\ [][NextRetry]_vars

\* -------------------------------------------------------- execute_sql_file
\* The pieces sql_content.split(';') yields: SQL text, lines of comment
\* only, white space only, or text of at most two characters.
Statements == {"s1", "s2"}

COMMENT == "-- c"

SHORT == "ab"

Fragments == Statements \cup {COMMENT, BLANK, SHORT}

\* A piece yields a statement when it is not blank, longer than two
\* characters and has a line that is not a comment.
HasSql(f) == f # BLANK /\ f # EMPTY /\ f # SHORT /\ f # COMMENT

\* the loop over raw_statements that fills statements
ExtractStatements(raw) == SelectSeq(raw, HasSql)

\* execute_sql_file(file_path, substitutions) is called on a file that does
\* not exist or on one of up to MaxFragments pieces.
InitSqlFile ==
    /\ source = <<>>
    /\ batch_size = 1
    /\ pc = "off"
    /\ other_pc = "off"
    /\ Fresh
    /\ RetryOff
    /\ DestroyOff
    /\ CreateOff
    /\ database = FALSE
    /\ secret = ABSENT
    /\ pat_token = NONE
    /\ f_pc = "open"
    /\ path_exists \in BOOLEAN
    /\ raw_statements \in SeqsUpTo(Fragments, MaxFragments)
    /\ ~path_exists => raw_statements = <<>>
    /\ statements = <<>>
    /\ executed = <<>>
    /\ applied = <<>>
    /\ file_result = NONE

\* if not path.exists(): return False; read, substitute, split, extract
SqlFileOpen ==
    /\ f_pc = "open"
    /\ IF path_exists
       THEN /\ statements' = ExtractStatements(raw_statements)
            /\ f_pc' = "statement"
            /\ UNCHANGED file_result
       ELSE /\ file_result' = "False"
            /\ f_pc' = "done"
            /\ UNCHANGED statements
    /\ UNCHANGED <<path_exists, raw_statements, executed, applied>>
    /\ UNCHANGED <<pipeline, retry, destroy, create, snowflake>>

\* The loop body without the break.
SqlFileStatementNoBreak ==
    /\ f_pc = "statement"
    /\ Len(executed) < Len(statements)
    /\ LET statement == statements[Len(executed) + 1]
       IN  /\ executed' = Append(executed, statement)
           /\ \/ applied' = Append(applied, statement)
              \/ UNCHANGED applied
    /\ UNCHANGED <<f_pc, file_result>>
    /\ UNCHANGED <<path_exists, raw_statements, statements>>
    /\ UNCHANGED <<pipeline, retry, destroy, create, snowflake>>

\* result = self.execute_statement(statement); if result is None:
\* success = False; break (an exception of another class: return False)
SqlFileStatement ==
    /\ f_pc = "statement"
    /\ Len(executed) < Len(statements)
    /\ LET statement == statements[Len(executed) + 1]
       IN  /\ executed' = Append(executed, statement)
           /\ \/ /\ applied' = Append(applied, statement)
                 /\ UNCHANGED <<f_pc, file_result>>
              \/ /\ file_result' = "False"
                 /\ f_pc' = "done"
                 /\ UNCHANGED applied
    /\ UNCHANGED <<path_exists, raw_statements, statements>>
    /\ UNCHANGED <<pipeline, retry, destroy, create, snowflake>>

\* the loop has ended with success = True: return success
SqlFileReturn ==
    /\ f_pc = "statement"
    /\ Len(executed) = Len(statements)
    /\ file_result' = "True"
    /\ f_pc' = "done"
    /\ UNCHANGED <<path_exists, raw_statements, statements, executed, applied>>
    /\ UNCHANGED <<pipeline, retry, destroy, create, snowflake>>

NextSqlFile ==
    \/ SqlFileOpen
    \/ SqlFileStatement
    \/ SqlFileReturn

SpecSqlFile == InitSqlFile /\ [][NextSqlFile]_vars

\* -------------------------------------------------- DestroyCommand.execute
\* The PAT tokens a configuration can hold.
PatTokens == {"p1", "p2"}

\* The three roles of the configuration: plain_text_groups, masked_groups,
\* redacted_groups.
Roles == {"plain_text", "masked", "redacted"}

\* The account a command can find: the secret lives in the PUBLIC schema of
\* {prefix}_database.
Account ==
    /\ database \in BOOLEAN
    /\ secret \in PatTokens \cup {ABSENT}
    /\ secret # ABSENT => database
    /\ pat_token \in PatTokens

InitDestroy ==
    /\ source = <<>>
    /\ batch_size = 1
    /\ pc = "off"
    /\ other_pc = "off"
    /\ Fresh
    /\ RetryOff
    /\ SqlFileOff
    /\ CreateOff
    /\ Account
    /\ d_pc = "validate"
    /\ failed_deletions = {}
    /\ drop_failed = {}
    /\ destroy_result = NONE

\* A step of execute: what it appends to failed_deletions, and the
\* resources it failed to remove.
DestroyStep(next, failed, dropped) ==
    /\ d_pc' = next
    /\ failed_deletions' = failed_deletions \cup failed
    /\ drop_failed' = drop_failed \cup dropped
    /\ UNCHANGED destroy_result

\* self.validate_environment(); a ValueError goes to the except clause
DestroyValidate ==
    /\ d_pc = "validate"
    /\ \/ DestroyStep("dashboard", {}, {})
       \/ /\ destroy_result' = "False"
          /\ d_pc' = "raised"
          /\ UNCHANGED <<failed_deletions, drop_failed>>
    /\ UNCHANGED snowflake
    /\ UNCHANGED <<pipeline, retry, sqlfile, create>>

\* Step 1: the dashboard is not found, deleted, deleted but still found, or
\* not deleted
DestroyDashboard ==
    /\ d_pc = "dashboard"
    /\ \/ DestroyStep("procedure", {}, {})
       \/ DestroyStep("procedure", {"dashboard (still exists)"}, {"dashboard"})
       \/ DestroyStep("procedure", {"dashboard"}, {"dashboard"})
    /\ UNCHANGED snowflake
    /\ UNCHANGED <<pipeline, retry, sqlfile, create>>

\* Step 2: if procedure_manager.delete_notebook(procedure_name): ... (no else)
DestroyProcedure ==
    /\ d_pc = "procedure"
    /\ \/ DestroyStep("masks", {}, {})
       \/ DestroyStep("masks", {}, {"procedure"})
    /\ UNCHANGED snowflake
    /\ UNCHANGED <<pipeline, retry, sqlfile, create>>

\* Step 3: remove_column_masks.sql; a failure is appended to
\* successful_deletions as "Masking policies (skipped)"
DestroyMasks ==
    /\ d_pc = "masks"
    /\ IF database
       THEN \/ DestroyStep("functions", {}, {})
            \/ DestroyStep("functions", {}, {"masks"})
       ELSE DestroyStep("functions", {}, {})
    /\ UNCHANGED snowflake
    /\ UNCHANGED <<pipeline, retry, sqlfile, create>>

\* Step 4: drop_functions.sql
DestroyFunctions ==
    /\ d_pc = "functions"
    /\ IF database
       THEN \/ DestroyStep("table", {}, {})
            \/ DestroyStep("table", {"functions"}, {"functions"})
       ELSE DestroyStep("table", {}, {})
    /\ UNCHANGED snowflake
    /\ UNCHANGED <<pipeline, retry, sqlfile, create>>

\* Step 5: drop_table.sql
DestroyTable ==
    /\ d_pc = "table"
    /\ IF database
       THEN \/ DestroyStep("network", {}, {})
            \/ DestroyStep("network", {"table"}, {"table"})
       ELSE DestroyStep("network", {}, {})
    /\ UNCHANGED snowflake
    /\ UNCHANGED <<pipeline, retry, sqlfile, create>>

\* Step 6: drop_network_rules.sql
DestroyNetwork ==
    /\ d_pc = "network"
    /\ \/ DestroyStep("database", {}, {})
       \/ DestroyStep("database", {"network"}, {"network"})
    /\ UNCHANGED snowflake
    /\ UNCHANGED <<pipeline, retry, sqlfile, create>>

\* Step 7: drop_database (DROP DATABASE ... CASCADE takes the secret with
\* it), then database_exists
DestroyDatabase ==
    /\ d_pc = "database"
    /\ \/ /\ database' = FALSE
          /\ secret' = ABSENT
          /\ DestroyStep("integration",
                         IF database' THEN {"database (still exists)"} ELSE {},
                         IF database' THEN {"database"} ELSE {})
       \/ /\ UNCHANGED <<database, secret>>
          /\ DestroyStep("integration", {"database"}, {"database"})
    /\ UNCHANGED pat_token
    /\ UNCHANGED <<pipeline, retry, sqlfile, create>>

\* Step 8: if resource_manager.drop_api_integration(...): validate (no else)
DestroyIntegration ==
    /\ d_pc = "integration"
    /\ \/ DestroyStep("roles", {}, {})
       \/ DestroyStep("roles", {"integration (still exists)"}, {"integration"})
       \/ DestroyStep("roles", {}, {"integration"})
    /\ UNCHANGED snowflake
    /\ UNCHANGED <<pipeline, retry, sqlfile, create>>

\* Step 9: _delete_role for each role; "All Snowflake roles" when none was deleted
DestroyRoles ==
    /\ d_pc = "roles"
    /\ \E failing \in SUBSET Roles :
          DestroyStep("secret",
                      failing \cup (IF failing = Roles THEN {"roles"} ELSE {}),
                      IF failing = {} THEN {} ELSE {"role"})
    /\ UNCHANGED snowflake
    /\ UNCHANGED <<pipeline, retry, sqlfile, create>>

\* Step 10: drop_secret(secret_name, database_name): True when SHOW SECRETS
\* raises or finds nothing, else DROP SECRET
DestroySecret ==
    /\ d_pc = "secret"
    /\ IF database /\ secret # ABSENT
       THEN \/ secret' = ABSENT /\ DestroyStep("return", {}, {})
            \/ UNCHANGED secret /\ DestroyStep("return", {}, {})
            \/ UNCHANGED secret /\ DestroyStep("return", {"secret", "secrets"}, {"secret"})
       ELSE UNCHANGED secret /\ DestroyStep("return", {}, {})
    /\ UNCHANGED <<database, pat_token>>
    /\ UNCHANGED <<pipeline, retry, sqlfile, create>>

\* return len(failed_deletions) == 0
DestroyReturn ==
    /\ d_pc = "return"
    /\ destroy_result' = IF failed_deletions = {} THEN "True" ELSE "False"
    /\ d_pc' = "done"
    /\ UNCHANGED <<failed_deletions, drop_failed>>
    /\ UNCHANGED snowflake
    /\ UNCHANGED <<pipeline, retry, sqlfile, create>>

NextDestroy ==
    \/ DestroyValidate
    \/ DestroyDashboard
    \/ DestroyProcedure
    \/ DestroyMasks
    \/ DestroyFunctions
    \/ DestroyTable
    \/ DestroyNetwork
    \/ DestroyDatabase
    \/ DestroyIntegration
    \/ DestroyRoles
    \/ DestroySecret
    \/ DestroyReturn

SpecDestroy == InitDestroy /\ [][NextDestroy]_vars

\* --------------------------------------------------- CreateCommand.execute
\* create is called on an account: execute starts with
\* DestroyCommand(self.prefix, self.config).execute()
InitCreate ==
    /\ source = <<>>
    /\ batch_size = 1
    /\ pc = "off"
    /\ other_pc = "off"
    /\ Fresh
    /\ RetryOff
    /\ SqlFileOff
    /\ Account
    /\ d_pc = "validate"
    /\ failed_deletions = {}
    /\ drop_failed = {}
    /\ destroy_result = NONE
    /\ c_pc = "destroy"
    /\ steps = <<>>
    /\ step_failed = {}
    /\ tokenization_success = NONE
    /\ create_result = NONE

\* A numbered step of execute was executed and the run goes on.
CreateStep(next, name, ok) ==
    /\ steps' = Append(steps, name)
    /\ step_failed' = IF ok THEN step_failed ELSE step_failed \cup {name}
    /\ c_pc' = next
    /\ UNCHANGED <<tokenization_success, create_result>>

\* if not self._setup_...(...): return False
CreateStop(name) ==
    /\ steps' = Append(steps, name)
    /\ step_failed' = step_failed \cup {name}
    /\ create_result' = "False"
    /\ c_pc' = "done"
    /\ UNCHANGED tokenization_success

\* destroy_command.execute() has returned and its result is dropped; then
\* self.validate_environment(), which raises on the configuration the
\* destroy raised on
CreateAfterDestroy ==
    /\ c_pc = "destroy"
    /\ d_pc \in {"done", "raised"}
    /\ IF d_pc = "raised"
       THEN create_result' = "False" /\ c_pc' = "done"
       ELSE c_pc' = "files" /\ UNCHANGED create_result
    /\ d_pc' = "off"
    /\ failed_deletions' = {}
    /\ drop_failed' = {}
    /\ destroy_result' = NONE
    /\ UNCHANGED <<steps, step_failed, tokenization_success>>
    /\ UNCHANGED <<pipeline, retry, sqlfile, snowflake>>

\* files_exist, missing = validate_required_files(required_files)
CreateFiles ==
    /\ c_pc = "files"
    /\ \/ c_pc' = "database" /\ UNCHANGED create_result
       \/ c_pc' = "done" /\ create_result' = "False"
    /\ UNCHANGED <<steps, step_failed, tokenization_success>>
    /\ UNCHANGED snowflake
    /\ UNCHANGED <<pipeline, retry, sqlfile, destroy>>

\* Step 1: create_database and create_schema
CreateDatabase ==
    /\ c_pc = "database"
    /\ \/ database' = TRUE /\ CreateStep("roles", "database", TRUE)
       \/ database' \in {database, TRUE} /\ CreateStop("database")
    /\ UNCHANGED <<secret, pat_token>>
    /\ UNCHANGED <<pipeline, retry, sqlfile, destroy>>

\* Step 2 with `return False` on a failure.
CreateRolesFatal ==
    /\ c_pc = "roles"
    /\ \/ CreateStep("secrets", "roles", TRUE)
       \/ CreateStop("roles")
    /\ UNCHANGED snowflake
    /\ UNCHANGED <<pipeline, retry, sqlfile, destroy>>

\* Step 2: _setup_roles; a failure prints a warning
CreateRoles ==
    /\ c_pc = "roles"
    /\ \E ok \in BOOLEAN : CreateStep("secrets", "roles", ok)
    /\ UNCHANGED snowflake
    /\ UNCHANGED <<pipeline, retry, sqlfile, destroy>>

\* Step 3: setup_skyflow_secrets -> create_secret: True at once when SHOW
\* SECRETS finds the secret, else CREATE SECRET with the configured token
CreateSecrets ==
    /\ c_pc = "secrets"
    /\ \/ /\ secret' = IF secret # ABSENT THEN secret ELSE pat_token
          /\ CreateStep("network", "secrets", TRUE)
       \/ UNCHANGED secret /\ CreateStop("secrets")
    /\ UNCHANGED <<database, pat_token>>
    /\ UNCHANGED <<pipeline, retry, sqlfile, destroy>>

\* Step 4: create_network_rules.sql
CreateNetwork ==
    /\ c_pc = "network"
    /\ \/ CreateStep("connections", "network", TRUE)
       \/ CreateStop("network")
    /\ UNCHANGED snowflake
    /\ UNCHANGED <<pipeline, retry, sqlfile, destroy>>

\* Step 5: create_external_functions.sql, then setup_external_functions.sql
CreateConnections ==
    /\ c_pc = "connections"
    /\ \/ CreateStep("sample", "connections", TRUE)
       \/ CreateStop("connections")
    /\ UNCHANGED snowflake
    /\ UNCHANGED <<pipeline, retry, sqlfile, destroy>>

\* Step 6: create_sample_table.sql makes Source Table
CreateSample ==
    /\ c_pc = "sample"
    /\ \/ /\ source' \in SeqsUpTo(RerunRows, MaxAgainRows)
          /\ baseline' = source'
          /\ CreateStep("procedure", "sample", TRUE)
       \/ /\ UNCHANGED <<source, baseline>>
          /\ CreateStop("sample")
    /\ UNCHANGED <<snap_table, staging_table, new_table, batch_size, pc, locals, result,
                   exec_result, writes, history, requests, response, runs, error_text,
                   other_pc>>
    /\ UNCHANGED <<retry, sqlfile, destroy, snowflake>>

\* Step 7: _create_tokenization_procedure
CreateProcedure ==
    /\ c_pc = "procedure"
    /\ \/ CreateStep("verify", "procedure", TRUE)
       \/ CreateStop("procedure")
    /\ UNCHANGED snowflake
    /\ UNCHANGED <<pipeline, retry, sqlfile, destroy>>

\* Step 8: _verify_functions; a failure prints a warning
CreateVerify ==
    /\ c_pc = "verify"
    /\ \E ok \in BOOLEAN : CreateStep("tokenize", "verify", ok)
    /\ UNCHANGED snowflake
    /\ UNCHANGED <<pipeline, retry, sqlfile, destroy>>

\* Step 9: self._execute_tokenization(procedure_manager) is called
CreateTokenize ==
    /\ c_pc = "tokenize"
    /\ pc' = "idle"
    /\ steps' = Append(steps, "tokenize")
    /\ c_pc' = "tokenizing"
    /\ UNCHANGED <<step_failed, tokenization_success, create_result>>
    /\ UNCHANGED <<tables, batch_size, locals, result, exec_result, writes, baseline,
                   history, requests, response, runs, error_text, other_pc>>
    /\ UNCHANGED <<retry, sqlfile, destroy, snowflake>>

\* tokenization_success = <what execute_tokenization_procedure returned>
CreateTokenizeReturn ==
    /\ c_pc = "tokenizing"
    /\ pc = "finished"
    /\ tokenization_success' = exec_result
    /\ step_failed' = IF exec_result = "True" THEN step_failed
                      ELSE step_failed \cup {"tokenize"}
    /\ c_pc' = "masking"
    /\ UNCHANGED <<steps, create_result>>
    /\ UNCHANGED snowflake
    /\ UNCHANGED <<pipeline, retry, sqlfile, destroy>>

\* Step 10 without the test of tokenization_success.
CreateMaskingUnconditional ==
    /\ c_pc = "masking"
    /\ \E ok \in BOOLEAN : CreateStep("dashboard", "masking", ok)
    /\ UNCHANGED snowflake
    /\ UNCHANGED <<pipeline, retry, sqlfile, destroy>>

\* Step 10: if tokenization_success: self._setup_functions(...)
\* (apply_column_masks.sql); else the step is skipped
CreateMasking ==
    /\ c_pc = "masking"
    /\ IF tokenization_success = "True"
       THEN \E ok \in BOOLEAN : CreateStep("dashboard", "masking", ok)
       ELSE /\ c_pc' = "dashboard"
            /\ UNCHANGED <<steps, step_failed, tokenization_success, create_result>>
    /\ UNCHANGED snowflake
    /\ UNCHANGED <<pipeline, retry, sqlfile, destroy>>

\* Step 11: dashboard_url = self._create_dashboard(...), None on a failure
CreateDashboard ==
    /\ c_pc = "dashboard"
    /\ \E ok \in BOOLEAN : CreateStep("validate", "dashboard", ok)
    /\ UNCHANGED snowflake
    /\ UNCHANGED <<pipeline, retry, sqlfile, destroy>>

\* Step 12: _validate_role_access; a failure prints a warning; return True
CreateValidate ==
    /\ c_pc = "validate"
    /\ \E ok \in BOOLEAN :
          /\ steps' = Append(steps, "validate")
          /\ step_failed' = IF ok THEN step_failed ELSE step_failed \cup {"validate"}
    /\ create_result' = "True"
    /\ c_pc' = "done"
    /\ UNCHANGED tokenization_success
    /\ UNCHANGED snowflake
    /\ UNCHANGED <<pipeline, retry, sqlfile, destroy>>

NextCreate ==
    \/ DestroyValidate
    \/ DestroyDashboard
    \/ DestroyProcedure
    \/ DestroyMasks
    \/ DestroyFunctions
    \/ DestroyTable
    \/ DestroyNetwork
    \/ DestroyDatabase
    \/ DestroyIntegration
    \/ DestroyRoles
    \/ DestroySecret
    \/ DestroyReturn
    \/ CreateAfterDestroy
    \/ CreateFiles
    \/ CreateDatabase
    \/ CreateRoles
    \/ CreateSecrets
    \/ CreateNetwork
    \/ CreateConnections
    \/ CreateSample
    \/ CreateProcedure
    \/ CreateVerify
    \/ CreateTokenize
    \/ CallProcedure
    \/ CallRaises
    \/ ExecReturn
    \/ Snapshot
    \/ CreateStaging
    \/ SelectColumn
    \/ VaultHttpError
    \/ VaultNoRecords
    \/ VaultBatch
    \/ MergeColumn
    \/ RebuildTable
    \/ Validate
    \/ Swap
    \/ DropNew
    \/ Cleanup
    \/ SqlError
    \/ CreateTokenizeReturn
    \/ CreateMasking
    \/ CreateDashboard
    \/ CreateValidate

SpecCreate == InitCreate /\ [][NextCreate]_vars

\* ----------------------------------------------------------------- claims
Ended == pc \in {"returned", "finished"}

\* C1: the swap is executed only after a validation that found Source Table
\* and the Replacement Table to hold the same number of rows; a validation
\* that finds different numbers ends the run, with no swap and with Source
\* Table as the external writers left it.
C1_SwapOnlyOnEqualCounts ==
    /\ [][/\ (pc = "validate" /\ pc' = "swap") => Count(source) = Count(new_table.rows)
          /\ (pc # "swap" /\ pc' = "swap") => pc = "validate"
          /\ swaps' # swaps => (pc = "swap" /\ old_rows = new_rows)
          /\ (pc = "validate" /\ pc' # pc /\ Count(source) # Count(new_table.rows))
                => (pc' = "returned" /\ source' = source /\ swaps' = swaps)]_vars
    /\ [](result = "validation_failed" =>
             (Ended /\ swaps = 0 /\ source = baseline /\ old_rows # new_rows))

C1_Witness ==
    /\ pc = "finished"
    /\ result = "validation_failed"
    /\ old_rows # new_rows
    /\ swaps = 0

\* C2: Source Table is written by the run at most once, by the swap step and
\* by no other step; as long as the run has not executed the swap, Source
\* Table is what it was at the start (up to the external writers).
C2_SourceWrittenOnlyBySwap ==
    /\ [][source' # source =>
             \/ writes' = writes + 1
             \/ (pc = "swap" /\ pc' = "drop_new" /\ swaps = 0 /\ swaps' = 1)]_vars
    /\ [](swaps <= 1 /\ (swaps = 0 => source = baseline))

C2_Witness ==
    /\ pc = "finished"
    /\ result = "failed"
    /\ staging_table.rows # <<>>
    /\ swaps = 0
    /\ source = baseline

\* C3: at every moment of a run Source Table holds either its complete
\* pre-run contents or the complete Replacement Table as the rebuild made
\* it: never no table, an empty table in place of rows, or a mixture.
C3_ReaderSeesOldOrNew ==
    /\ (swaps = 0 => source = baseline)
    /\ (swaps > 0 => (source = built /\ source # <<>> /\ new_table \in {NoTable, Table(baseline)}))

C3_Witness ==
    /\ swaps = 1
    /\ source = built
    /\ source # baseline
    /\ new_table = Table(baseline)

Plain(v) == Tokenizable(v) /\ v \notin Tokens

\* C4: after a run that performed the swap, no row of Source Table holds a
\* plaintext sensitive value: every value that was tokenizable in the
\* Snapshot has been replaced by a vault token.
C4_NoPlaintextPublished ==
    swaps > 0 =>
        \A i \in 1..Len(source) : \A c \in PiiSet : ~Plain(source[i].pii[c])

\* C5: the Replacement Table the rebuild produces has one row for each row
\* Source Table held when the run read it, the rows without any sensitive
\* value included.
C5_RebuildKeepsEveryRow ==
    (new_table.exists /\ swaps = 0) => Count(new_table.rows) = rows_at_snap

\* C6: with no external writer, no failing statement or request and only
\* well-formed vault responses, a run whose Snapshot is not empty passes
\* the validation and performs the swap.
C6_QuietRunSwaps ==
    (/\ Ended
     /\ writes = 0
     /\ well_formed
     /\ result \notin {NONE, "failed", "api_error", "no_rows"})
        => (result = "complete" /\ swaps = 1)

\* C7: when the number of rows of Source Table at the validation differs
\* from the number at the snapshot, the validation reports a mismatch and
\* the swap is not performed.
C7_RowCountChangeAborts ==
    (old_rows # Unbound /\ old_rows # rows_at_snap)
        => (result = "validation_failed" /\ swaps = 0)

\* C8: execute_tokenization_procedure returns True exactly for the runs
\* that performed the swap or had nothing to tokenize, and False for every
\* other run.
C8_CallerSeesFailure ==
    pc = "finished" =>
        (exec_result = "True" <=> result \in {"complete", "no_rows"})

\* C9: a vault request that fails transiently is issued up to 3 times for
\* its batch before the run fails; one that fails with a 4xx is issued once.
C9_TransientFailureRetried ==
    /\ (result = "failed" /\ http_error = "transient") => attempts = 3
    /\ (result = "failed" /\ http_error = "client") => attempts = 1

\* C10: once a response record bound to a row matches none of the four
\* shapes, the run performs no swap.
C10_UnrecognizedShapeAborts ==
    unrecognized => swaps = 0

\* C11: a response that is empty or has no `records` key ends the run at
\* that batch: the handler has returned an API error message that names the
\* column, no request follows the failed one, the column's tokens are not
\* merged, no Replacement Table is built, no swap is executed and Source
\* Table is as the external writers left it.
C11_NoRecordsStopsRun ==
    (posts > total_api_calls /\ http_error = NONE) =>
        /\ Ended
        /\ result = "api_error"
        /\ error_column = pii_columns[col]
        /\ posts = total_api_calls + 1
        /\ \A i \in 1..Len(staging_table.rows) : \A k \in col..NumCols :
              staging_table.rows[i].tok[pii_columns[k]] = NULL
        /\ built = <<>>
        /\ ~new_table.exists
        /\ swaps = 0
        /\ source = baseline

C11_Witness ==
    /\ pc = "finished"
    /\ result = "api_error"
    /\ error_column = "email"
    /\ total_api_calls > 0
    /\ staging_table.rows # <<>>

\* The batch of the request whose response the step just taken bound.
LastBatch ==
    SubSeq(values_data, batch_start - batch_size + 1, Min(batch_start, Len(values_data)))

TokensOf(rn) == {column_tokens[k][2] : k \in {j \in 1..Len(column_tokens) : column_tokens[j][1] = rn}}

\* C12: the token taken from the i-th record of a response is bound to the
\* i-th row id of the batch, and to no other; a row of the batch gets no
\* token but the one at its position; records beyond the end of the batch
\* bind to no row.
C12_BoundByPosition ==
    response # <<>> =>
        LET recs == response[1]
            B == Len(LastBatch)
        IN  /\ \A i \in 1..B :
                  TokensOf(LastBatch[i].rn) =
                      IF i <= Len(recs) /\ Truthy(ExtractToken(recs[i]))
                      THEN {ExtractToken(recs[i])}
                      ELSE {}
            /\ \A k \in 1..Len(column_tokens) :
                  \E i \in 1..Len(values_data) : values_data[i].rn = column_tokens[k][1]
            /\ \A j, k \in 1..Len(column_tokens) :
                  j # k => column_tokens[j][1] # column_tokens[k][1]

C12_Witness ==
    /\ response # <<>>
    /\ Len(LastBatch) = 2
    /\ Len(response[1]) = 3
    /\ ~Truthy(ExtractToken(response[1][1]))
    /\ ExtractToken(response[1][2]) = "t1"
    /\ TokensOf(LastBatch[1].rn) = {}
    /\ TokensOf(LastBatch[2].rn) = {"t1"}

Shapes == <<"tokens", "fields", "token", "bare">>

\* C13: the token extracted from a response record is the value under the
\* first shape the record matches, in the order tokens[column],
\* fields[column], token, column; a record matching several shapes yields
\* the value of the first of them.
C13_FirstMatchingShape ==
    response # <<>> =>
        LET recs == response[1]
        IN  \A i \in 1..Min(Len(LastBatch), Len(recs)) :
                LET present == {k \in 1..Len(Shapes) : recs[i][Shapes[k]] # ABSENT}
                    first == CHOOSE k \in present : \A j \in present : k <= j
                IN  TokensOf(LastBatch[i].rn) =
                        IF present = {} \/ recs[i][Shapes[first]] = EMPTY
                        THEN {}
                        ELSE {recs[i][Shapes[first]]}

C13_Witness ==
    /\ response # <<>>
    /\ Len(response[1]) >= 1
    /\ response[1][1].tokens = "t1"
    /\ response[1][1].fields = "t2"
    /\ TokensOf(LastBatch[1].rn) = {"t1"}

\* The Replacement Table has just been built and the tables it was built
\* from are still there.
Rebuilt == built # <<>> /\ snap_table.exists /\ staging_table.exists

\* C14: no vault request carries a null or blank sensitive value, and a
\* cell that is null in the Snapshot is null in the Replacement Table (the
\* rows of the two tables correspond in row-id order).
C14_NullAndBlankNeverSent ==
    /\ \A b \in 1..Len(sent) : \A i \in 1..Len(sent[b]) :
          sent[b][i].value \notin {NULL, EMPTY, BLANK}
    /\ Rebuilt =>
          /\ Len(built) = Len(snap_table.rows)
          /\ \A i \in 1..Len(built) : \A c \in PiiSet :
                snap_table.rows[i].row.pii[c] = NULL => built[i].pii[c] = NULL

C14_Witness ==
    /\ Rebuilt
    /\ \E i, j \in 1..Len(built) :
          /\ snap_table.rows[i].row.pii["first_name"] = NULL
          /\ built[i].pii["first_name"] = NULL
          /\ built[i].pii["email"] \in Tokens
          /\ snap_table.rows[j].row.pii["email"] = BLANK
          /\ built[j].pii["email"] = BLANK
          /\ built[j].pii["first_name"] \in Tokens

\* C15: every row of the Replacement Table has the non-sensitive values of
\* the Snapshot row with its row id, which are those of a Source Table row
\* at snapshot time (checked against Source Table itself while nothing has
\* written to it), whatever the vault returned.
C15_NonSensitiveCopied ==
    Rebuilt =>
        /\ Len(built) = Len(snap_table.rows)
        /\ \A i \in 1..Len(built) :
              /\ built[i].customer_id = snap_table.rows[i].row.customer_id
              /\ built[i].total_purchases = snap_table.rows[i].row.total_purchases
        /\ (writes = 0 /\ swaps = 0) =>
              \E p \in [1..Len(built) -> 1..Len(source)] :
                  /\ \A i, j \in 1..Len(built) : i # j => p[i] # p[j]
                  /\ \A i \in 1..Len(built) :
                        /\ snap_table.rows[i].row = source[p[i]]
                        /\ built[i].customer_id = source[p[i]].customer_id
                        /\ built[i].total_purchases = source[p[i]].total_purchases

C15_Witness ==
    /\ Rebuilt
    /\ writes = 0
    /\ swaps = 0
    /\ Len(built) = 2
    /\ built[1].customer_id # built[2].customer_id
    /\ built[1].pii["email"] \in Tokens
    /\ built[2].pii["email"] \in Tokens

\* The tokens the Staging Accumulator holds for a row id and a column.
StagedTokens(rn, c) ==
    {staging_table.rows[k].tok[c] :
        k \in {j \in 1..Len(staging_table.rows) : staging_table.rows[j].rn = rn}} \ {NULL}

\* C16: every sensitive cell of the Replacement Table holds the Staging
\* Accumulator's token for its own row id and column when there is one, and
\* the Snapshot's original value of that row and column otherwise.
C16_TokenElseOriginal ==
    Rebuilt =>
        /\ Len(built) = Len(snap_table.rows)
        /\ \A i \in 1..Len(built) : \A c \in PiiSet :
              LET toks == StagedTokens(snap_table.rows[i].rn, c)
              IN  IF toks # {}
                  THEN toks = {built[i].pii[c]}
                  ELSE built[i].pii[c] = snap_table.rows[i].row.pii[c]

C16_Witness ==
    /\ Rebuilt
    /\ Len(built) = 2
    /\ StagedTokens(1, "first_name") = {"t1"}
    /\ StagedTokens(2, "first_name") = {"t2"}
    /\ StagedTokens(1, "email") = {}
    /\ StagedTokens(2, "email") = {"t1"}
    /\ built[1].pii = [first_name |-> "t1", email |-> "b"]
    /\ built[2].pii = [first_name |-> "t2", email |-> "t1"]

\* C17: the Staging Accumulator holds at most one row per row id, every
\* row id in it is a row id of the Snapshot, and each of its cells is a
\* token or null.
C17_OneStagingRowPerRowId ==
    staging_table.exists =>
        LET stg == staging_table.rows
        IN  /\ \A i, j \in 1..Len(stg) : i # j => stg[i].rn # stg[j].rn
            /\ snap_table.exists =>
                  \A i \in 1..Len(stg) :
                      \E k \in 1..Len(snap_table.rows) : snap_table.rows[k].rn = stg[i].rn
            /\ \A i \in 1..Len(stg) : \A c \in PiiSet : stg[i].tok[c] \in Tokens \cup {NULL}

C17_Witness ==
    /\ staging_table.exists
    /\ snap_table.exists
    /\ col > NumCols
    /\ Len(staging_table.rows) = 2
    /\ \E i, j \in 1..2 :
          /\ staging_table.rows[i].tok["first_name"] \in Tokens
          /\ staging_table.rows[i].tok["email"] = NULL
          /\ staging_table.rows[j].tok["first_name"] \in Tokens
          /\ staging_table.rows[j].tok["email"] \in Tokens

\* The records of a replay that returns another token for every row id.
Replayed(toks) == [i \in 1..Len(toks) |-> <<toks[i][1], IF toks[i][2] = "t1" THEN "t2" ELSE "t1">>]

\* C18: at every merge of a column pass, merging the pass's (row id, token)
\* records twice gives the Staging state that merging them once gives, with
\* no row added; a later record for the same row id and column replaces the
\* token (last write wins). A second pass over the unchanged Snapshot with
\* the same vault responses collects the same records, so it is the second
\* of the two merges.
C18_MergeIdempotent ==
    (pc = "merge" /\ column_tokens # <<>>) =>
        LET c == pii_columns[col]
            once == MergeTokens(staging_table.rows, c, column_tokens)
            twice == MergeTokens(once, c, column_tokens)
            later == MergeTokens(once, c, Replayed(column_tokens))
        IN  /\ twice = once
            /\ Len(later) = Len(once)
            /\ \A k \in 1..Len(column_tokens) :
                  \E i \in 1..Len(later) :
                      /\ later[i].rn = column_tokens[k][1]
                      /\ later[i].tok[c] = Replayed(column_tokens)[k][2]
                      /\ once[i].rn = column_tokens[k][1]
                      /\ once[i].tok[c] = column_tokens[k][2]

C18_Witness ==
    /\ pc = "merge"
    /\ Len(column_tokens) = 2
    /\ Len(staging_table.rows) = 1
    /\ \E k \in 1..2 : column_tokens[k][1] = staging_table.rows[1].rn
    /\ \E k \in 1..2 : column_tokens[k][1] # staging_table.rows[1].rn

\* The values of the requests of the column pass so far, in the order sent.
SentValues ==
    LET f == Flatten(sent)
    IN  [i \in 1..Len(f) |-> [rn |-> f[i].rn, pii_value |-> f[i].value]]

\* C20: the requests of a column pass carry the column's tokenizable values
\* in row-id order, each value in exactly one request; every request has
\* at least one and at most batch_size values and all but the last have
\* exactly batch_size; a pass of n values in which every request succeeded
\* has issued ceil(n / batch_size) requests.
C20_BatchesPartitionValues ==
    pc \in {"vault", "merge"} =>
        LET n == Len(values_data)
        IN  /\ SentValues = SubSeq(values_data, 1, Len(SentValues))
            /\ \A k \in 1..Len(sent) :
                  /\ Len(sent[k]) >= 1
                  /\ Len(sent[k]) <= batch_size
                  /\ (k < Len(sent) \/ pc = "vault") => Len(sent[k]) = batch_size
            /\ \A i, j \in 1..Len(SentValues) : i < j => SentValues[i].rn < SentValues[j].rn
            /\ pc = "merge" =>
                  /\ SentValues = values_data
                  /\ Len(sent) = (n + batch_size - 1) \div batch_size

C20_Witness ==
    /\ pc = "merge"
    /\ batch_size = 2
    /\ Len(values_data) = 3
    /\ Len(sent) = 2
    /\ Len(sent[1]) = 2
    /\ Len(sent[2]) = 1

\* C19: a re-run after a run that aborted in a column pass keeps what the
\* aborted run had merged into the Staging Accumulator: its statement on
\* the staging table leaves the table as the aborted run left it.
C19_RerunResumesFromStaging ==
    [][(runs > 1 /\ pc = "staging" /\ pc' = "select") => staging_table' = staging_table]_vars

\* C21: while Source Table is as it was at the snapshot, the Snapshot's
\* rows are exactly the Source Table rows with a non-null sensitive column,
\* each once, and the row ids of its k rows are 1..k.
C21_SnapshotIsFilteredSource ==
    (snap_table.exists /\ writes = 0 /\ swaps = 0) =>
        LET snap == snap_table.rows
            idx == {i \in 1..Len(source) : \E c \in PiiSet : source[i].pii[c] # NULL}
        IN  /\ Len(snap) = Cardinality(idx)
            /\ \A i \in 1..Len(snap) : snap[i].rn = i
            /\ \E p \in [1..Len(snap) -> idx] :
                  /\ \A i, j \in 1..Len(snap) : i # j => p[i] # p[j]
                  /\ \A i \in 1..Len(snap) : snap[i].row = source[p[i]]

C21_Witness ==
    /\ snap_table.exists
    /\ writes = 0
    /\ swaps = 0
    /\ Len(source) = 2
    /\ Len(snap_table.rows) = 1
    /\ snap_table.rows[1].row.pii = [first_name |-> NULL, email |-> BLANK]

\* C22: the snapshot a re-run takes of the unchanged Source Table gives
\* every row the row id the snapshot of the run before gave it.
C22_SnapshotReproducible ==
    [][(runs > 1 /\ pc = "snapshot" /\ pc' = "staging" /\ source' = source)
          => snap_table' = snap_table]_vars

\* C23: between its snapshot and its return, a run's Snapshot, Staging
\* Accumulator and Replacement Table are written by that run only: a
\* statement of another invocation leaves the three tables as they were.
C23_ScratchTablesPrivate ==
    [][(other_pc' # other_pc /\ pc \notin {"idle", "snapshot", "returned", "finished"})
          => UNCHANGED <<snap_table, staging_table, new_table>>]_vars

\* The stage of the run a position of the handler belongs to.
Stage(p) ==
    CASE p = "idle" -> 0
      [] p = "snapshot" -> 1
      [] p \in {"staging", "select", "vault", "merge"} -> 2
      [] p = "ctas" -> 3
      [] p = "validate" -> 4
      [] p = "swap" -> 5
      [] p \in {"drop_new", "cleanup"} -> 6
      [] OTHER -> 7

\* C24: a run goes through its stages in the order snapshot, tokenization
\* (column after column, the batches of a column in order), rebuild,
\* validation, swap, done: a step stays in its stage, enters the next one
\* or ends the run, and nothing follows the end of the run; the swap has
\* been executed only after every column was processed, the Replacement
\* Table built and the row counts found equal.
C24_StagesInOrder ==
    /\ [](swaps > 0 =>
            /\ col > NumCols
            /\ built # <<>>
            /\ old_rows # Unbound
            /\ old_rows = new_rows)
    /\ [][/\ Stage(pc') \in {Stage(pc), Stage(pc) + 1} \/ Ended'
          /\ Ended => Ended'
          /\ (Stage(pc) = 2 /\ Stage(pc') = 2 /\ col > 0) =>
                /\ col' >= col
                /\ (pc = "vault" /\ col' = col) => batch_start' >= batch_start
                /\ (pc = "vault" /\ pc' = "vault" /\ posts' # posts) =>
                      batch_start' > batch_start]_vars

C24_Witness ==
    /\ pc = "finished"
    /\ result = "complete"
    /\ swaps = 1
    /\ total_api_calls = 3

\* C25: a run that executed the swap ends with the completion message,
\* the caller sees success and Source Table holds the rebuilt rows, whether
\* or not the drops of the displaced table, the Snapshot and the Staging
\* Accumulator succeeded.
C25_CleanupFailureHarmless ==
    /\ (swaps > 0 /\ pc \in {"drop_new", "cleanup"}) => source = built
    /\ (swaps > 0 /\ Ended) => (result = "complete" /\ source = built)
    /\ (swaps > 0 /\ pc = "finished") => exec_result = "True"

C25_Witness ==
    /\ pc = "finished"
    /\ swaps = 1
    /\ result = "complete"
    /\ new_table.exists
    /\ snap_table.exists
    /\ staging_table.exists
    /\ source = built

\* C26: once a run that took its snapshot has ended, the Snapshot table
\* does not exist.
C26_SnapshotDroppedAtEnd ==
    (pc = "finished" /\ rows_at_snap # Unbound) => ~snap_table.exists

\* C27: a run whose swap statement failed has returned the failure message
\* with that statement's error text and has dropped nothing: the
\* Replacement Table as built, the Snapshot and the Staging Accumulator are
\* still there, and Source Table is as the external writers left it.
C27_FailedSwapNotCompensated ==
    (Ended /\ error_text = "swap") =>
        /\ result = "failed"
        /\ swaps = 0
        /\ new_table = Table(built)
        /\ snap_table.exists
        /\ staging_table.exists
        /\ source = baseline

C27_Witness ==
    /\ pc = "finished"
    /\ error_text = "swap"
    /\ result = "failed"
    /\ built # <<>>
    /\ old_rows = new_rows
    /\ staging_table.rows # <<>>

\* The non-null token cells of the Staging Accumulator.
StagedCells ==
    Cardinality({<<i, c>> \in (1..Len(staging_table.rows)) \X PiiSet :
                    staging_table.rows[i].tok[c] # NULL})

\* The cells of the Replacement Table that took a token from staging.
BuiltTokenCells ==
    Cardinality({<<i, c>> \in (1..Len(built)) \X PiiSet : built[i].pii[c] \in Tokens})

\* C28: from the rebuild on, the API call counter equals the number of
\* vault requests the run issued and the token counter equals the number
\* of non-null token cells of the Staging Accumulator; the completion
\* message reports these two counters.
C28_ReportedTotalsExact ==
    /\ (pc \in {"ctas", "validate", "swap", "drop_new", "cleanup"} /\ staging_table.exists) =>
          /\ total_api_calls = posts
          /\ total_tokens_processed = StagedCells
    /\ (Ended /\ result = "complete") =>
          /\ total_api_calls = posts
          /\ total_tokens_processed = BuiltTokenCells

C28_Witness ==
    /\ pc = "finished"
    /\ result = "complete"
    /\ posts = 3
    /\ total_api_calls = 3
    /\ total_tokens_processed = 2
    /\ BuiltTokenCells = 2

\* C29: with max_retries >= 1, operation is called at most max_retries
\* times; a call that returned is the last one and its value is the
\* result; when every one of the max_retries attempts raised a
\* SnowflakeError, the error of the last attempt is raised.
C29_RetryAtMostMaxRetries ==
    max_retries >= 1 =>
        /\ calls <= max_retries
        /\ calls \in {Len(raised), Len(raised) + 1}
        /\ (retry_result # <<>> /\ retry_result[1] = "returned") =>
              /\ retry_result[2] = "v"
              /\ calls = Len(raised) + 1
              /\ r_pc = "done"
        /\ (r_pc = "done" /\ Len(raised) = max_retries) =>
              /\ calls = max_retries
              /\ retry_result = <<"raised", raised[max_retries]>>

C29_Witness ==
    /\ r_pc = "done"
    /\ max_retries = 3
    /\ raised = <<"e1", "e1", "e2">>
    /\ retry_result = <<"raised", "e2">>

\* C30: the i-th wait is delay * 2^(i-1) seconds; a wait follows a failed
\* attempt and is followed by another attempt, so a finished call has waited
\* once less than it called operation, and a call that failed all
\* max_retries attempts has waited max_retries - 1 times.
C30_BackoffDoubles ==
    /\ \A i \in 1..Len(sleeps) : sleeps[i] = delay0 * 2^(i - 1)
    /\ Len(sleeps) <= Len(raised)
    /\ Len(sleeps) \in {calls - 1, calls}
    /\ (r_pc = "done" /\ calls >= 1) => Len(sleeps) = calls - 1
    /\ (r_pc \in {"raise", "done"} /\ max_retries >= 1 /\ Len(raised) = max_retries) =>
          Len(sleeps) = max_retries - 1

C30_Witness ==
    /\ r_pc = "done"
    /\ max_retries = 4
    /\ delay0 = 2
    /\ Len(raised) = 4
    /\ sleeps = <<2, 4, 8>>

\* C39: an exception of operation() that is not a SnowflakeError leaves
\* execute_with_retry in the attempt that raised it: it is the result of the
\* call, every earlier attempt failed with a SnowflakeError and was followed
\* by its wait, and no call of operation and no wait comes after it.
C39_OtherExceptionPropagates ==
    (retry_result = <<"raised", "other">>) =>
        /\ r_pc = "done"
        /\ \A i \in 1..Len(raised) : raised[i] \in SnowflakeErrors
        /\ calls = Len(raised) + 1
        /\ Len(sleeps) = Len(raised)

C39_Witness ==
    /\ retry_result = <<"raised", "other">>
    /\ max_retries = 4
    /\ raised = <<"e1", "e2">>
    /\ calls = 3
    /\ sleeps = <<delay0, 2 * delay0>>

\* C35: a run whose snapshot is empty (no row of Source Table has a non-null
\* sensitive value) returns "No rows to tokenize" from the snapshot step: no
\* vault request was issued, neither the staging table nor the replacement
\* table was created, no swap was executed and Source Table is as it was;
\* and "No rows to tokenize" is returned by such a run only.
C35_EmptySnapshotReturnsEarly ==
    /\ (snap_table.exists /\ Count(snap_table.rows) = 0) =>
          /\ Ended
          /\ result = "no_rows"
          /\ posts = 0
          /\ ~staging_table.exists
          /\ ~new_table.exists
          /\ swaps = 0
          /\ source = baseline
          /\ writes = 0
    /\ result = "no_rows" =>
          /\ snap_table.exists /\ Count(snap_table.rows) = 0
          /\ \A i \in 1..Len(source) : ~HasPii(source[i])

C35_Witness ==
    /\ pc = "finished"
    /\ result = "no_rows"
    /\ Len(source) = MaxRows
    /\ snap_table = Table(<<>>)

\* C36: a write of an external writer between the snapshot and the swap is
\* not lost by a run that swaps: after the swap Source Table has the rows the
\* writers left, with the non-sensitive values the writers left in them.
C36_ExternalWriteSurvivesSwap ==
    (swaps > 0 /\ writes > 0) =>
        LET kept(t) == {<<t[i].customer_id, t[i].total_purchases>> : i \in 1..Len(t)}
        IN  /\ Len(source) = Len(baseline)
            /\ kept(source) = kept(baseline)

\* C37: in a run that follows a completed run, no request to the vault
\* carries a value that is a token, and a swap of that run leaves Source
\* Table as the first run published it.
C37_TokensNotResubmitted ==
    runs > 1 =>
        /\ \A i \in 1..Len(sent) : \A j \in 1..Len(sent[i]) : sent[i][j].value \notin Tokens
        /\ swaps > 0 => source = baseline

\* C34: execute_sql_file hands the statements of the file to Snowflake in
\* file order; a statement that fails is the last one handed over and ends
\* the call with False, the statements before it staying executed; the call
\* returns True exactly when the file exists and every statement of it was
\* executed.
C34_FileOrderStopAtFirstFailure ==
    LET all == ExtractStatements(raw_statements)
        n == Len(executed)
    IN  /\ n <= Len(all)
        /\ executed = SubSeq(all, 1, n)
        /\ \/ applied = executed
           \/ /\ n >= 1
              /\ applied = SubSeq(all, 1, n - 1)
              /\ f_pc = "done"
              /\ file_result = "False"
        /\ f_pc = "done" =>
              (file_result = "True" <=> (path_exists /\ applied = all))
        /\ file_result = "False" => f_pc = "done"

C34_Witness ==
    /\ f_pc = "done"
    /\ file_result = "False"
    /\ raw_statements = <<"s1", COMMENT, "s2">>
    /\ executed = <<"s1", "s2">>
    /\ applied = <<"s1">>

\* C33: DestroyCommand.execute returns True only when no removal failed:
\* the procedure, the masking policies, the functions, the table, the
\* network rules, the database, the API integration, every role and the
\* secret were dropped.
C33_TrueOnlyIfAllDropped ==
    (d_pc = "done" /\ destroy_result = "True") => drop_failed = {}

\* C31: in a create run the masking-policy file is executed only after the
\* tokenization step was started and the procedure call has returned, and
\* only when the tokenization step reported success; it is not executed
\* while the tokenization step is pending or after it reported failure.
C31_MaskingOnlyAfterTokenization ==
    /\ \A i \in 1..Len(steps) :
          steps[i] = "masking" =>
              /\ \E j \in 1..(i - 1) : steps[j] = "tokenize"
              /\ pc = "finished"
              /\ exec_result = "True"
              /\ tokenization_success = "True"
    /\ (c_pc \in {"tokenize", "tokenizing"} \/ tokenization_success = "False") =>
          \A i \in 1..Len(steps) : steps[i] # "masking"

C31_Witness ==
    /\ c_pc = "done"
    /\ create_result = "True"
    /\ result = "complete"
    /\ swaps = 1
    /\ \E i \in 1..Len(steps) : steps[i] = "masking"

\* C32: a failure of database/schema setup, secret setup, network-rule
\* setup, connection setup, sample-table creation or procedure creation is
\* the last step of the run, which returns False; a failure of role
\* creation, function verification, tokenization, masking policies or role
\* validation is not: a run without a failure of the first kind executes
\* every step (the masking policies when the tokenization succeeded) and
\* returns True.
C32_HardStepsStopSoftStepsContinue ==
    LET hard == {"database", "secrets", "network", "connections", "sample", "procedure"}
        before == <<"database", "roles", "secrets", "network", "connections", "sample",
                    "procedure", "verify", "tokenize">>
        after == <<"dashboard", "validate">>
    IN  /\ \A i \in 1..Len(steps) :
              (steps[i] \in hard /\ steps[i] \in step_failed) =>
                  /\ i = Len(steps)
                  /\ c_pc = "done"
                  /\ create_result = "False"
        /\ (c_pc = "done" /\ steps # <<>> /\ step_failed \cap hard = {}) =>
              /\ create_result = "True"
              /\ steps = IF tokenization_success = "True"
                         THEN before \o <<"masking">> \o after
                         ELSE before \o after
        /\ create_result = "True" => step_failed \cap hard = {}

C32_Witness ==
    /\ c_pc = "done"
    /\ create_result = "True"
    /\ step_failed = {"roles", "verify", "tokenize", "validate"}

\* C38: once the secret-setup step of a create run has reported success,
\* the secret SKYFLOW_PAT_TOKEN holds the PAT token of the configuration.
C38_SecretHoldsConfiguredToken ==
    (\E i \in 1..Len(steps) : steps[i] = "secrets" /\ steps[i] \notin step_failed)
        => secret = pat_token

====
